---- MODULE Spec2Model ----
(***************************************************************************)
(* A state-machine model of the stock indicator pipeline:                  *)
(*   - SimpleTechnicalDataRepository.save_technical_data and its batch     *)
(*     upsert (backend/simple_postgres_models.py),                         *)
(*   - DatabaseInitializer.initialize_stock_metadata                       *)
(*     (backend/database_init.py),                                         *)
(*   - StockMetaDataFetcher.__init__ and _fetch_stock_price_data           *)
(*     (backend/stock_metadata_fetcher.py).                                *)
(***************************************************************************)
EXTENDS Integers, Sequences, FiniteSets, Bags, TLC

\* ------------------------------------------------------------------ bounds
\* Timestamps of a series are 1..MaxTs.
MaxTs == 2
\* save_technical_data calls explored from an empty store.
MaxCalls == 2
\* How many entries of av_interval_order a run uses.
NumIntervals == 2
\* The longest stock list a batch run is given.
MaxStocks == 2

\* ------------------------------------------------------------- vocabulary
\* A value is a number, pandas' missing value (NaN) or SQL NULL.
Num(n) == [num |-> n]
NaN == [missing |-> "NaN"]
NULL == [missing |-> "NULL"]
\* Python's None, as dict.get and Series.get return for an absent key.
None == [missing |-> "None"]

\* A key of technical_data holds a series (index -> value) or None.
NoneSeries == [none |-> TRUE, at |-> <<>>]
Series(f) == [none |-> FALSE, at |-> f]

\* Every symbol the stores may hold rows or documents for.
Symbols == {"AAPL", "MSFT", "GOOG"}
Timestamps == 1..MaxTs

\* StockMetaDataFetcher.av_interval_mapping, in insertion order.
av_interval_order == <<"1m", "5m", "15m", "30m", "60m", "1d", "1wk", "1mo">>

\* SimpleTechnicalDataRepository.interval_tables.
interval_tables ==
  [i \in {av_interval_order[k] : k \in 1..Len(av_interval_order)} |->
     "interval_" \o i \o "_technical"]

TableNames == {interval_tables[i] : i \in DOMAIN interval_tables}

\* The intervals a call is made with: the first NumIntervals of the fetcher's
\* intervals, and "3mo", which has parameter profiles but no table.
Intervals == {av_interval_order[k] : k \in 1..NumIntervals} \cup {"3mo"}

\* The columns of an interval table. "close" stands for the OHLCV block (the
\* record literal of lines 68-77 sets all of them from the price row), "macd"
\* and "rsi" for the indicator columns, each set only when its series holds
\* the row's timestamp.
KeyCols == {"symbol", "datetime_index"}
IndicatorCols == {"macd", "rsi"}
NonKeyCols == {"close"} \cup IndicatorCols
AllCols == KeyCols \cup NonKeyCols

\* ------------------------------------------------------ save_technical_data

\* idx.tz_localize('UTC'): a naive timestamp becomes the same wall time in UTC.
TzLocalizeUTC(idx) == [t |-> idx, tz |-> "UTC"]

\* _convert_to_serializable: a missing value becomes None (SQL NULL).
convert_to_serializable(value) ==
  IF value = NaN \/ value = None THEN NULL ELSE value

\* "series is not None and idx in series.index"
HasIndex(series, idx) == ~series.none /\ idx \in DOMAIN series.at

\* The keys of the record built for one price row (lines 68-162).
RecordKeys(td, idx) ==
  KeyCols \cup {"close"} \cup {c \in IndicatorCols : HasIndex(td[c], idx)}

\* The record built for one price row (lines 60-164).
BuildRecord(symbol, td, idx) ==
  [k \in RecordKeys(td, idx) |->
     CASE k = "symbol" -> symbol
       [] k = "datetime_index" -> TzLocalizeUTC(idx)
       [] k = "close" -> convert_to_serializable(td.stock_price.at[idx])
       [] OTHER -> convert_to_serializable(td[k].at[idx])]

\* A set of timestamps in ascending order (the price frame is sorted by index).
RECURSIVE SortedSeq(_)
SortedSeq(S) ==
  IF S = {} THEN <<>>
  ELSE LET m == CHOOSE x \in S : \A y \in S : x <= y
       IN <<m>> \o SortedSeq(S \ {m})

\* records: one per row of stock_price_data.iterrows().
BuildRecords(symbol, td) ==
  LET idxs == SortedSeq(DOMAIN td.stock_price.at)
  IN [n \in 1..Len(idxs) |-> BuildRecord(symbol, td, idxs[n])]

\* columns = list(records[0].keys())
Columns(records) == DOMAIN records[1]

\* row_data = [record.get(col) for col in columns]
RowData(columns, record) ==
  [c \in columns |-> IF c \in DOMAIN record THEN record[c] ELSE NULL]

\* A conflict target of (symbol) alone.
SameKeySymbolOnly(r, vals) == r.symbol = vals.symbol

\* ON CONFLICT (symbol, datetime_index)
SameKey(r, vals) ==
  r.symbol = vals.symbol /\ r.datetime_index = vals.datetime_index

\* The row an INSERT stores: the listed columns, NULL elsewhere.
InsertedRow(columns, vals) ==
  [c \in AllCols |-> IF c \in columns THEN vals[c] ELSE NULL]

\* DO UPDATE SET "col" = EXCLUDED."col" for every listed non-key column.
UpdatedRow(r, columns, vals) ==
  [c \in AllCols |-> IF c \in columns \ KeyCols THEN vals[c] ELSE r[c]]

RECURSIVE UpdateAll(_, _, _, _)
UpdateAll(table, rows, columns, vals) ==
  IF rows = {} THEN table
  ELSE LET r == CHOOSE x \in rows : TRUE
           n == CopiesIn(r, table)
           moved == (table (-) [x \in {r} |-> n])
                      (+) [x \in {UpdatedRow(r, columns, vals)} |-> n]
       IN UpdateAll(moved, rows \ {r}, columns, vals)

\* A plain INSERT: the row is added whatever the table holds.
ExecuteInsertOnly(table, columns, vals) ==
  table (+) SetToBag({InsertedRow(columns, vals)})

\* One execution of the statement of lines 228-234:
\* INSERT ... ON CONFLICT (symbol, datetime_index) DO UPDATE SET ...
ExecuteUpsert(table, columns, vals) ==
  LET conflicts == {r \in BagToSet(table) : SameKey(r, vals)}
  IN IF conflicts = {}
     THEN table (+) SetToBag({InsertedRow(columns, vals)})
     ELSE UpdateAll(table, conflicts, columns, vals)

\* connection.executemany(query, batch_data)
RECURSIVE ExecuteMany(_, _, _, _)
ExecuteMany(table, columns, records, n) ==
  IF n > Len(records) THEN table
  ELSE ExecuteMany(ExecuteUpsert(table, columns, RowData(columns, records[n])),
                   columns, records, n + 1)

\* The rows of the table are dropped before the batch is written.
BatchInsertTruncating(table, records) ==
  IF Len(records) = 0 THEN table
  ELSE ExecuteMany(EmptyBag, Columns(records), records, 1)

\* _enhanced_batch_insert (lines 212-244).
enhanced_batch_insert(table, records) ==
  IF Len(records) = 0 THEN table
  ELSE ExecuteMany(table, Columns(records), records, 1)

\* What a save_technical_data call comes back with: the tables after it, the
\* value returned, whether the batch write completed, whether the store
\* write raised.
Returned(tbls, ok, wrote, raised) ==
  [tables |-> tbls, ok |-> ok, wrote |-> wrote, raised |-> raised]

\* An except clause that reports success.
ExceptClauseReturnsTrue(tbls) == Returned(tbls, TRUE, FALSE, TRUE)

\* except Exception: print, return False (lines 175-177).
ExceptClause(tbls) == Returned(tbls, FALSE, FALSE, TRUE)

\* save_technical_data (lines 38-177). storeRaises: the store write raises
\* (the batch is atomic, nothing is written) and the except clause is taken.
save_technical_data(tbls, symbol, interval, td, storeRaises) ==
  IF interval \notin DOMAIN interval_tables
  THEN Returned(tbls, FALSE, FALSE, FALSE)
  ELSE IF td.stock_price.none
  THEN Returned(tbls, FALSE, FALSE, FALSE)
  ELSE IF DOMAIN td.stock_price.at = {}
  THEN Returned(tbls, FALSE, FALSE, FALSE)
  ELSE IF storeRaises
  THEN ExceptClause(tbls)
  ELSE LET tn == interval_tables[interval]
           records == BuildRecords(symbol, td)
       IN Returned([tbls EXCEPT ![tn] = enhanced_batch_insert(@, records)],
                   TRUE, TRUE, FALSE)

\* ------------------------------------------------------------------ inputs
\* The value of column c at timestamp t in version v of a symbol's data.
ColBase(c) == CASE c = "close" -> 100 [] c = "macd" -> 200 [] OTHER -> 300
Val(c, v, t) == Num(ColBase(c) + 10 * v + t)
Versions == {1, 2}

\* stock_price: absent, or a frame over any set of timestamps (an empty frame
\* included).
PriceFrames(v) ==
  {NoneSeries} \cup
  {Series([t \in P |-> Val("close", v, t)]) : P \in SUBSET Timestamps}

\* An indicator series over any non-empty index, whichever timestamps of the
\* price frame it lacks or adds, its first value missing (warm-up) or not.
FreeSeries(c, v) ==
  {NoneSeries} \cup
  UNION {{Series([t \in I |-> IF t \in N THEN NaN ELSE Val(c, v, t)]) :
            N \in {{}, {CHOOSE m \in I : \A x \in I : m <= x}}} :
         I \in (SUBSET Timestamps) \ {{}}}

\* An indicator series as the fetcher builds it, over the price frame's index.
AlignedSeries(c, v, price) ==
  {NoneSeries} \cup
  (IF price.none \/ DOMAIN price.at = {} THEN {}
   ELSE {Series([t \in DOMAIN price.at |-> Val(c, v, t)])})

TechnicalData ==
  UNION {UNION {UNION {
    {[stock_price |-> p, macd |-> m, rsi |-> r] : r \in AlignedSeries("rsi", v, p)} :
      m \in IF p.none \/ DOMAIN p.at = {} THEN {NoneSeries} ELSE FreeSeries("macd", v)} :
      p \in PriceFrames(v)} : v \in Versions}

\* ------------------------------------------------------------------- state
VARIABLES
  tables,     \* table name -> bag of rows
  before,     \* the tables before the last save_technical_data call
  last,       \* the last call: symbol, interval, input, value returned
  repeated,   \* the last call repeats the one before, and both returned True
  persisted,  \* table name -> symbol -> timestamps written by calls so far
  nCalls,     \* direct save_technical_data calls made
  batch,      \* initialize_stock_metadata: its locals and its position
  fetcher,    \* the StockMetaDataFetcher under construction
  call,       \* the current _fetch_stock_price_data call
  mongo_docs, \* the stock_metadata collection: tickers holding a document
  redis,      \* the cache: key -> expiry in seconds
  run,        \* per symbol, what this batch run has done for it
  calc        \* a parser or indicator call on its own: input and result

saveVars == <<tables, before, last, repeated, persisted>>
batchVars == <<batch, fetcher, call, mongo_docs, redis, run>>
vars == <<tables, before, last, repeated, persisted, nCalls,
          batch, fetcher, call, mongo_docs, redis, run, calc>>

\* No parser or indicator call is under way.
NoCalc == [fn |-> "none"]

NoCall ==
  [symbol |-> "", interval |-> "",
   td |-> [stock_price |-> NoneSeries, macd |-> NoneSeries, rsi |-> NoneSeries],
   ok |-> FALSE, wrote |-> FALSE, raised |-> FALSE]

\* One save_technical_data call on the store, and what the claims record of it.
SaveEffect(symbol, interval, td, storeRaises) ==
  LET res == save_technical_data(tables, symbol, interval, td, storeRaises)
      this == [symbol |-> symbol, interval |-> interval, td |-> td, ok |-> res.ok,
               wrote |-> res.wrote, raised |-> res.raised]
  IN /\ tables' = res.tables
     /\ before' = tables
     /\ last' = this
     /\ repeated' = (res.ok /\ last = this)
     /\ persisted' =
          IF res.ok
          THEN [persisted EXCEPT ![interval_tables[interval]][symbol] =
                  @ \cup {TzLocalizeUTC(t) : t \in DOMAIN td.stock_price.at}]
          ELSE persisted

Save(symbol, interval, td, storeRaises) ==
  /\ nCalls < MaxCalls
  /\ nCalls' = nCalls + 1
  /\ SaveEffect(symbol, interval, td, storeRaises)
  /\ UNCHANGED <<batchVars, calc>>

InitSave ==
  /\ tables = [tn \in TableNames |-> EmptyBag]
  /\ before = [tn \in TableNames |-> EmptyBag]
  /\ last = NoCall
  /\ repeated = FALSE
  /\ persisted = [tn \in TableNames |-> [s \in Symbols |-> {}]]
  /\ nCalls = 0

\* ------------------------------------------- _fetch_stock_price_data
max_retries == 3
RateLimitWait == 60
RetryWait == 5

\* What one provider request comes back with: a parsable series, a rate-limit
\* notice ('Note'), a provider error ('Error Message'), a transport error
\* (requests.get or raise_for_status raises), a response with no parsable bar.
Outcomes == {"ok", "note", "error_message", "transport", "empty"}

NewCall(interval) ==
  [interval |-> interval, attempt |-> 0, requests |-> 0, sleeps |-> <<>>,
   outcomes |-> <<>>, status |-> "running"]

IdleCall ==
  [interval |-> "", attempt |-> 0, requests |-> 0, sleeps |-> <<>>,
   outcomes |-> <<>>, status |-> "idle"]

\* A back-off that grows with the attempt.
SleepForGrowing(outcome, attempt) ==
  IF outcome = "note" THEN RateLimitWait * (attempt + 1) ELSE RetryWait

\* time.sleep(60) after a rate-limit notice, time.sleep(5) after a failure.
SleepFor(outcome, attempt) ==
  IF outcome = "note" THEN RateLimitWait ELSE RetryWait

\* One pass of the retry loop (lines 111-147): a request is issued; a series
\* is stored and the call returns, or the attempt fails and the loop sleeps
\* and goes on, or, on the last attempt, the call raises.
FetchStep(c, outcome) ==
  LET made == [c EXCEPT !.requests = @ + 1, !.outcomes = Append(@, outcome)]
  IN IF outcome = "ok"
     THEN [made EXCEPT !.status = "stored"]
     ELSE IF c.attempt < max_retries - 1
     THEN [made EXCEPT !.sleeps = Append(@, SleepFor(outcome, c.attempt)),
                       !.attempt = @ + 1]
     ELSE [made EXCEPT !.status = "raised"]

\* ---------------------------------------- StockMetaDataFetcher.__init__
\* The intervals of a run, in the order of av_interval_mapping.keys().
PipelineIntervals == SubSeq(av_interval_order, 1, NumIntervals)
IntervalSet == {PipelineIntervals[k] : k \in 1..NumIntervals}

\* The indicator computations of one interval, in call order (lines 54-63).
IndicatorOrder ==
  <<"sma", "ema", "wma", "dema", "tema", "kama", "macd", "rsi", "kdj",
    "cdl_pattern">>

AllComputations == IntervalSet \X {IndicatorOrder[f] : f \in 1..Len(IndicatorOrder)}

\* The loop returns after the first interval's last indicator.
FetcherAfterComputeFirstOnly(k, f) ==
  IF f < Len(IndicatorOrder)
  THEN [pc |-> "compute", k |-> k, f |-> f + 1]
  ELSE [pc |-> "mongo", k |-> k, f |-> f]

\* Where the constructor's loop (lines 52-63) goes after indicator f of
\* interval k: the next indicator, the next interval's fetch, or the end of
\* the constructor, after which initialize_stock_metadata writes.
FetcherAfterCompute(k, f) ==
  IF f < Len(IndicatorOrder)
  THEN [pc |-> "compute", k |-> k, f |-> f + 1]
  ELSE IF k < NumIntervals
  THEN [pc |-> "fetch", k |-> k + 1, f |-> 0]
  ELSE [pc |-> "mongo", k |-> k, f |-> f]

\* The price frame a fetch stores, and a series computed over its index (its
\* first value missing: warm-up).
FetchedFrame == Series([t \in Timestamps |-> Val("close", 1, t)])
ComputedSeries(c) ==
  Series([t \in Timestamps |-> IF t = 1 THEN NaN ELSE Val(c, 1, t)])

\* stock_technical_data[interval] as save_technical_data reads it.
TdOf(keys) ==
  [stock_price |-> IF "stock_price" \in keys THEN FetchedFrame ELSE NoneSeries,
   macd |-> IF "macd" \in keys THEN ComputedSeries("macd") ELSE NoneSeries,
   rsi |-> IF "rsi" \in keys THEN ComputedSeries("rsi") ELSE NoneSeries]

NoFetcher ==
  [ticker |-> "", k |-> 0, f |-> 0, technical |-> [iv \in IntervalSet |-> {}]]

\* ------------------------------------------- initialize_stock_metadata
CacheExpire == 3600

\* The stock list the document store holds is a prefix of this one.
StockUniverse == <<"AAPL", "MSFT", "GOOG">>

Min(a, b) == IF a <= b THEN a ELSE b

\* stocks = stocks[:max_stocks] when max_stocks is given (lines 76-77).
Limit(stocks, max_stocks) ==
  IF max_stocks > 0 THEN SubSeq(stocks, 1, Min(max_stocks, Len(stocks)))
  ELSE stocks

\* StockCacheManager.cache_stock_metadata: redis.set(key, value, ex=expire).
cache_stock_metadata(cache, symbol, expire) ==
  {e \in cache : e.key # "stock_metadata:" \o symbol}
    \cup {[key |-> "stock_metadata:" \o symbol, ex |-> expire]}

\* The cache write's exception leaves the inner try and reaches the symbol's
\* except clause.
AfterCacheWritePropagates(ok) == IF ok THEN "count" ELSE "except"

\* After the cache write, raised or not (lines 121-125 swallow the
\* exception), the symbol is classified.
AfterCacheWrite(ok) == "count"

\* The loop stops at the first symbol that raises.
ExceptNextBreaks(b) ==
  [b EXCEPT !.error_count = @ + 1, !.i = Len(b.stocks) + 1, !.pc = "loop"]

\* except Exception: error_count += 1; continue (lines 139-142).
ExceptNext(b) ==
  [b EXCEPT !.error_count = @ + 1, !.i = @ + 1, !.pc = "loop"]

NoRun ==
  [fetched |-> {}, computed |-> {}, raised |-> {}, mongo |-> "none",
   pg |-> [iv \in IntervalSet |-> "none"], cache |-> "none",
   outcome |-> "none"]

InitBatch(list, max_stocks) ==
  /\ batch = [pc |-> "init", stock_list |-> list, max_stocks |-> max_stocks,
              stocks |-> <<>>, i |-> 0, success_count |-> 0, error_count |-> 0,
              mongo_success |-> FALSE, postgres_success |-> FALSE, k |-> 0,
              processed |-> <<>>, returned |-> "none"]
  /\ fetcher = NoFetcher
  /\ call = IdleCall
  /\ mongo_docs = {}
  /\ redis = {}
  /\ run = [s \in Symbols |-> NoRun]

\* Lines 68-83: read the stock list, return False when it is empty (or the
\* read failed: get_all_stocks then returns []), else cut it to max_stocks.
Start ==
  /\ batch.pc = "init"
  /\ \E readFails \in BOOLEAN :
       LET stocks == IF readFails THEN <<>> ELSE batch.stock_list
       IN batch' = IF Len(stocks) = 0
                   THEN [batch EXCEPT !.pc = "done", !.returned = "False"]
                   ELSE [batch EXCEPT !.pc = "loop", !.i = 1,
                                      !.stocks = Limit(stocks, batch.max_stocks)]
  /\ UNCHANGED <<fetcher, call, mongo_docs, redis, run, saveVars, nCalls, calc>>

\* Line 90: the fetcher is built for the next stock of the list. Its company
\* overview and fundamentals are fetched first; both swallow their errors.
BeginSymbol ==
  /\ batch.pc = "loop"
  /\ batch.i <= Len(batch.stocks)
  /\ fetcher' = [NoFetcher EXCEPT !.ticker = batch.stocks[batch.i], !.k = 1]
  /\ call' = NewCall(PipelineIntervals[1])
  /\ batch' = [batch EXCEPT !.pc = "fetch",
                            !.processed = Append(@, batch.stocks[batch.i])]
  /\ UNCHANGED <<mongo_docs, redis, run, saveVars, nCalls, calc>>

\* One attempt of _fetch_stock_price_data for the interval at hand.
FetchAttempt(outcome) ==
  /\ batch.pc = "fetch"
  /\ LET c == FetchStep(call, outcome)
         stored == c.status = "stored"
     IN /\ call' = c
        /\ fetcher' = IF stored
                      THEN [fetcher EXCEPT !.technical[call.interval] =
                                             @ \cup {"stock_price"},
                                           !.f = 1]
                      ELSE fetcher
        /\ batch' = [batch EXCEPT !.pc = CASE stored -> "compute"
                                           [] c.status = "raised" -> "except"
                                           [] OTHER -> "fetch"]
        /\ run' = IF stored
                  THEN [run EXCEPT ![fetcher.ticker].fetched =
                                     @ \cup {call.interval}]
                  ELSE run
  /\ UNCHANGED <<mongo_docs, redis, saveVars, nCalls, calc>>

\* One indicator computation of the constructor (lines 54-63). It reads the
\* interval's price frame and stores its result, or raises: nothing in the
\* constructor catches, so the exception leaves it.
ComputeIndicator(raises) ==
  /\ batch.pc = "compute"
  /\ LET iv == PipelineIntervals[fetcher.k]
         fam == IndicatorOrder[fetcher.f]
         nxt == FetcherAfterCompute(fetcher.k, fetcher.f)
     IN IF raises
        THEN /\ batch' = [batch EXCEPT !.pc = "except"]
             /\ run' = [run EXCEPT ![fetcher.ticker].raised = @ \cup {<<iv, fam>>}]
             /\ UNCHANGED <<fetcher, call>>
        ELSE /\ batch' = [batch EXCEPT !.pc = nxt.pc]
             /\ fetcher' = [fetcher EXCEPT !.technical[iv] = @ \cup {fam},
                                           !.k = nxt.k, !.f = nxt.f]
             /\ call' = IF nxt.pc = "fetch"
                        THEN NewCall(PipelineIntervals[nxt.k]) ELSE call
             /\ run' = [run EXCEPT ![fetcher.ticker].computed =
                                     @ \cup {<<iv, fam>>}]
  /\ UNCHANGED <<mongo_docs, redis, saveVars, nCalls, calc>>

\* Lines 95-107: create_or_update_stock_metadata replaces the symbol's
\* document (upsert) and returns True, or raises inside and returns False.
MongoWrite(ok) ==
  /\ batch.pc = "mongo"
  /\ mongo_docs' = IF ok THEN mongo_docs \cup {fetcher.ticker} ELSE mongo_docs
  /\ batch' = [batch EXCEPT !.mongo_success = ok, !.postgres_success = TRUE,
                            !.k = 1, !.pc = "postgres"]
  /\ run' = [run EXCEPT ![fetcher.ticker].mongo = IF ok THEN "ok" ELSE "failed"]
  /\ UNCHANGED <<fetcher, call, redis, saveVars, nCalls, calc>>

\* Lines 109-117: one interval of technical_data.items() is saved.
PostgresWrite(storeRaises) ==
  /\ batch.pc = "postgres"
  /\ LET iv == PipelineIntervals[batch.k]
         keys == fetcher.technical[iv]
         res == save_technical_data(tables, fetcher.ticker, iv, TdOf(keys),
                                    storeRaises)
         pc2 == IF batch.k < NumIntervals THEN "postgres"
                ELSE IF batch.mongo_success THEN "cache" ELSE "count"
     IN IF keys = {}
        THEN /\ batch' = [batch EXCEPT !.k = @ + 1, !.pc = pc2]
             /\ UNCHANGED <<run, saveVars>>
        ELSE /\ SaveEffect(fetcher.ticker, iv, TdOf(keys), storeRaises)
             /\ batch' = [batch EXCEPT
                            !.postgres_success = IF res.ok THEN @ ELSE FALSE,
                            !.k = @ + 1, !.pc = pc2]
             /\ run' = [run EXCEPT ![fetcher.ticker].pg[iv] =
                                     IF res.ok THEN "ok" ELSE "failed"]
  /\ UNCHANGED <<fetcher, call, mongo_docs, redis, nCalls, calc>>

\* Lines 119-125: reached only when mongo_success; the entry is set with
\* expire=3600, or the write raises and the failure is printed.
CacheWrite(ok) ==
  /\ batch.pc = "cache"
  /\ redis' = IF ok THEN cache_stock_metadata(redis, fetcher.ticker, CacheExpire)
              ELSE redis
  /\ batch' = [batch EXCEPT !.pc = AfterCacheWrite(ok)]
  /\ run' = [run EXCEPT ![fetcher.ticker].cache = IF ok THEN "ok" ELSE "failed"]
  /\ UNCHANGED <<fetcher, call, mongo_docs, saveVars, nCalls, calc>>

\* Lines 127-132: the symbol is counted.
CountSymbol ==
  /\ batch.pc = "count"
  /\ LET success == batch.mongo_success /\ batch.postgres_success
     IN /\ batch' = [batch EXCEPT
                       !.success_count = IF success THEN @ + 1 ELSE @,
                       !.error_count = IF success THEN @ ELSE @ + 1,
                       !.i = @ + 1, !.pc = "loop"]
        /\ run' = [run EXCEPT ![fetcher.ticker].outcome =
                                IF success THEN "success" ELSE "error"]
  /\ UNCHANGED <<fetcher, call, mongo_docs, redis, saveVars, nCalls, calc>>

\* Lines 139-142: an exception of the symbol's iteration is counted.
HandleException ==
  /\ batch.pc = "except"
  /\ batch' = ExceptNext(batch)
  /\ run' = [run EXCEPT ![fetcher.ticker].outcome = "error"]
  /\ UNCHANGED <<fetcher, call, mongo_docs, redis, saveVars, nCalls, calc>>

\* Lines 144-148: the list is exhausted.
Finish ==
  /\ batch.pc = "loop"
  /\ batch.i > Len(batch.stocks)
  /\ batch' = [batch EXCEPT !.pc = "done",
                 !.returned = IF batch.success_count > 0 THEN "True" ELSE "False"]
  /\ UNCHANGED <<fetcher, call, mongo_docs, redis, run, saveVars, nCalls, calc>>

\* ----------------------------------------------------------- specifications
\* save_technical_data called directly, any symbol, interval and input.
SaveSymbols == {"AAPL", "MSFT"}

InitSaveSpec == InitSave /\ InitBatch(<<>>, 0) /\ calc = NoCalc

NextSave ==
  \E symbol \in SaveSymbols, interval \in Intervals, td \in TechnicalData,
     storeRaises \in BOOLEAN :
    Save(symbol, interval, td, storeRaises)

SpecSave == InitSaveSpec /\ [][NextSave]_vars

\* One initialize_stock_metadata run over a stock list.
InitBatchSpec ==
  /\ InitSave
  /\ calc = NoCalc
  /\ \E n \in 0..MaxStocks, max_stocks \in 0..MaxStocks :
       InitBatch(SubSeq(StockUniverse, 1, n), max_stocks)

NextBatch ==
  \/ Start
  \/ BeginSymbol
  \/ \E outcome \in Outcomes : FetchAttempt(outcome)
  \/ \E raises \in BOOLEAN : ComputeIndicator(raises)
  \/ \E ok \in BOOLEAN : MongoWrite(ok)
  \/ \E storeRaises \in BOOLEAN : PostgresWrite(storeRaises)
  \/ \E ok \in BOOLEAN : CacheWrite(ok)
  \/ CountSymbol
  \/ HandleException
  \/ Finish

SpecBatch == InitBatchSpec /\ [][NextBatch]_vars

\* --------------------------------------------------------------- claims
TableOf(c) == interval_tables[c.interval]

\* The rows of a symbol in a table, as a set.
RowsOf(tbls, tn, symbol) == {r \in BagToSet(tbls[tn]) : r.symbol = symbol}

\* The rows stored under (symbol, t).
RowsAt(tbls, tn, symbol, t) ==
  {r \in RowsOf(tbls, tn, symbol) : r.datetime_index = TzLocalizeUTC(t)}

\* The value the input holds for column c at timestamp t: the series' value
\* there, NULL where it is missing or the series lacks t.
InputValue(td, c, t) ==
  IF c = "close" THEN convert_to_serializable(td.stock_price.at[t])
  ELSE IF HasIndex(td[c], t) THEN convert_to_serializable(td[c].at[t])
  ELSE NULL

\* C1: a save_technical_data call that repeats the call before it (same
\* symbol, interval and input, both returning True) leaves every table as the
\* first call left it: same rows, same column values, no duplicate.
C1_SaveTwiceSameState == repeated => tables = before

C1_Witness ==
  /\ repeated
  /\ BagCardinality(tables[TableOf(last)]) >= 2
  /\ \E c \in IndicatorCols : ~last.td[c].none

\* C2: every table holds at most one row per (symbol, datetime_index), and
\* the rows of a symbol number the distinct timestamps persisted for it.
C2_OneRowPerKey ==
  \A tn \in TableNames :
    /\ \A r \in BagToSet(tables[tn]) : CopiesIn(r, tables[tn]) = 1
    /\ \A r1, r2 \in BagToSet(tables[tn]) :
         (r1.symbol = r2.symbol /\ r1.datetime_index = r2.datetime_index)
           => r1 = r2
    /\ \A s \in Symbols :
         BagCardinality([r \in RowsOf(tables, tn, s) |-> tables[tn][r]])
           = Cardinality(persisted[tn][s])

\* Two calls with overlapping timestamp ranges: the second rewrites a stored
\* timestamp and adds a new one.
C2_Witness ==
  /\ last.ok
  /\ \E t1, t2 \in DOMAIN last.td.stock_price.at :
       /\ RowsAt(before, TableOf(last), last.symbol, t1) # {}
       /\ RowsAt(before, TableOf(last), last.symbol, t2) = {}
  /\ Cardinality(persisted[TableOf(last)][last.symbol]) >= 2

\* C3: when a call writes a row whose key is already stored, every non-key
\* column of the stored row holds the new input's value, NULL where the new
\* input has none.
C3_FullRowReplace ==
  last.ok =>
    \A t \in DOMAIN last.td.stock_price.at :
      RowsAt(before, TableOf(last), last.symbol, t) # {} =>
        \A r \in RowsAt(tables, TableOf(last), last.symbol, t) :
          \A c \in NonKeyCols : r[c] = InputValue(last.td, c, t)

\* C4: a call stores exactly one row per timestamp of the price frame, none
\* for a timestamp only an indicator series holds, and every indicator column
\* at a price timestamp holds the series' value at that timestamp (NULL when
\* missing or when the series lacks the timestamp).
C4_AlignedByTimestamp ==
  last.ok =>
    /\ \A t \in DOMAIN last.td.stock_price.at :
         /\ Cardinality(RowsAt(tables, TableOf(last), last.symbol, t)) = 1
         /\ \A r \in RowsAt(tables, TableOf(last), last.symbol, t) :
              \A c \in IndicatorCols : r[c] = InputValue(last.td, c, t)
    /\ \A t \in Timestamps \ DOMAIN last.td.stock_price.at :
         RowsAt(tables, TableOf(last), last.symbol, t)
           = RowsAt(before, TableOf(last), last.symbol, t)

\* The symbols of the batch that reached the end of their iteration.
StoresSucceeded(s) ==
  run[s].mongo = "ok" /\ \A iv \in IntervalSet : run[s].pg[iv] = "ok"

Wrote(s) ==
  \/ run[s].mongo # "none"
  \/ run[s].cache # "none"
  \/ \E iv \in IntervalSet : run[s].pg[iv] # "none"

\* C5: initialize_stock_metadata processes the symbols of the list once each
\* and in list order, whatever failed for an earlier symbol; when it ends,
\* success_count + error_count is the number of symbols processed; a symbol
\* is a success exactly when its document-store write and every per-interval
\* relational write succeeded.
C5_BatchCounts ==
  /\ Len(batch.processed) <= Len(batch.stocks)
  /\ \A n \in 1..Len(batch.processed) : batch.processed[n] = batch.stocks[n]
  /\ batch.pc = "done" =>
       /\ batch.processed = batch.stocks
       /\ batch.success_count + batch.error_count = Len(batch.processed)
       /\ batch.success_count =
            Cardinality({s \in Symbols : run[s].outcome = "success"})
  /\ \A s \in Symbols :
       run[s].outcome # "none" =>
         (run[s].outcome = "success" <=> StoresSucceeded(s))

\* A batch of two where the first symbol's pipeline raised and the second
\* symbol was stored.
C5_Witness ==
  /\ batch.pc = "done"
  /\ Len(batch.stocks) = 2
  /\ run[batch.stocks[1]].outcome = "error"
  /\ run[batch.stocks[1]].mongo = "none"
  /\ run[batch.stocks[2]].outcome = "success"
  /\ batch.success_count = 1 /\ batch.error_count = 1

\* C6: the document store holds a symbol's document of this run only when
\* every relational write of the symbol has completed successfully; after a
\* failed relational write the symbol's document is not written.
C6_DocumentAfterRelational ==
  \A s \in Symbols :
    run[s].mongo = "ok" => \A iv \in IntervalSet : run[s].pg[iv] = "ok"

\* C7: the cache write of a symbol is attempted only after its document-store
\* write succeeded; every entry expires after 3600 seconds; a failed cache
\* write leaves the symbol's classification what the stores decide and the
\* later symbols processed.
C7_CacheBestEffort ==
  /\ \A s \in Symbols : run[s].cache # "none" => run[s].mongo = "ok"
  /\ \A e \in redis :
       /\ e.ex = 3600
       /\ \E s \in Symbols :
            e.key = "stock_metadata:" \o s /\ run[s].cache = "ok"
  /\ \A s \in Symbols :
       (run[s].cache = "failed" /\ run[s].outcome # "none") =>
         (run[s].outcome = "success" <=> StoresSucceeded(s))
  /\ (batch.pc = "done" /\ \E s \in Symbols : run[s].cache = "failed") =>
       batch.processed = batch.stocks

\* The first symbol's cache write failed, it is a success all the same, and
\* the second symbol was processed and cached.
C7_Witness ==
  /\ batch.pc = "done"
  /\ Len(batch.stocks) = 2
  /\ run[batch.stocks[1]].cache = "failed"
  /\ run[batch.stocks[1]].outcome = "success"
  /\ run[batch.stocks[2]].cache = "ok"
  /\ redis = {[key |-> "stock_metadata:" \o batch.stocks[2], ex |-> 3600]}

\* C8: when one indicator computation of a symbol has raised and the symbol's
\* iteration has ended, every other indicator of every interval of the
\* symbol has been computed.
C8_FamilyFailureConfined ==
  \A s \in Symbols :
    (run[s].raised # {} /\ run[s].outcome # "none") =>
      run[s].computed = AllComputations \ run[s].raised

\* C9: an indicator of an interval is computed only after the interval's
\* price fetch has stored its series, and a symbol's first write to any store
\* comes after all of its intervals are fetched and computed.
C9_StagesInOrder ==
  \A s \in Symbols :
    /\ \A p \in run[s].computed \cup run[s].raised : p[1] \in run[s].fetched
    /\ Wrote(s) =>
         /\ run[s].fetched = IntervalSet
         /\ run[s].computed = AllComputations

C9_Witness ==
  \E s \in Symbols :
    /\ run[s].cache = "ok"
    /\ StoresSucceeded(s)
    /\ run[s].computed = AllComputations
    /\ tables[interval_tables[PipelineIntervals[NumIntervals]]] # EmptyBag

\* C10: a _fetch_stock_price_data call makes at most 3 requests; each failed
\* request (rate-limit notice, provider error, transport error, empty series)
\* uses one attempt; a rate-limited attempt before the last is followed by a
\* wait of 60 seconds, the same on every attempt; a successful request stores
\* the series and ends the call; the third failure raises and stores nothing.
C10_BoundedRetries ==
  call.status # "idle" =>
    /\ call.requests <= 3
    /\ call.requests = Len(call.outcomes)
    /\ \A n \in 1..Len(call.outcomes) :
         /\ (n < Len(call.outcomes) => call.outcomes[n] # "ok")
         /\ (call.outcomes[n] # "ok" /\ n < 3) =>
              /\ n <= Len(call.sleeps)
              /\ call.outcomes[n] = "note" => call.sleeps[n] = 60
    /\ Len(call.sleeps) <= Len(call.outcomes)
    /\ call.status = "running" =>
         /\ call.requests < 3
         /\ call.attempt = call.requests
         /\ "stock_price" \notin fetcher.technical[call.interval]
    /\ call.status = "stored" <=>
         (call.outcomes # <<>> /\ call.outcomes[Len(call.outcomes)] = "ok")
    /\ call.status = "stored" =>
         "stock_price" \in fetcher.technical[call.interval]
    /\ call.status = "raised" <=>
         (call.requests = 3 /\ call.outcomes[3] # "ok")
    /\ call.status = "raised" =>
         "stock_price" \notin fetcher.technical[call.interval]

\* Two rate-limited attempts, each waited out, then a third failure: the call
\* raises.
C10_Witness ==
  /\ call.status = "raised"
  /\ call.outcomes = <<"note", "note", "empty">>
  /\ call.sleeps = <<60, 60>>

\* ------------------------------------- _parse_stock_price_data_response
\* Bars of one provider response.
MaxBars == 2

\* Floats as exact fractions in lowest terms.
RECURSIVE GCD(_, _)
GCD(a, b) == IF b = 0 THEN a ELSE GCD(b, a % b)

Rat(n, d) ==
  IF n = 0 THEN [num |-> 0, den |-> 1]
  ELSE [num |-> n \div GCD(n, d), den |-> d \div GCD(n, d)]

RatMul(x, y) == Rat(x.num * y.num, x.den * y.den)
RatDiv(x, y) == Rat(x.num * y.den, x.den * y.num)

\* What the provider's JSON holds under a field: a numeric string, a string
\* that is no number, null.
Str(n) == [text |-> "number", n |-> n]
BadText == [text |-> "n/a", n |-> 0]
JsonNull == [text |-> "null", n |-> 0]

\* float(values[key]) or int(values[key]): the exception it raises, or "ok".
Conv(values, key) ==
  IF key \notin DOMAIN values THEN "KeyError"
  ELSE IF values[key] = JsonNull THEN "TypeError"
  ELSE IF values[key] = BadText THEN "ValueError"
  ELSE "ok"

Float(values, key) == Rat(values[key].n, 1)

\* The first exception of a sequence of evaluations, in evaluation order.
RECURSIVE FirstError(_)
FirstError(steps) ==
  IF steps = <<>> THEN "ok"
  ELSE IF Head(steps) # "ok" THEN Head(steps)
  ELSE FirstError(Tail(steps))

\* The inverse factor, rawClose / adjustedClose.
InverseFactor(adjusted_close, original_close) ==
  RatDiv(original_close, adjusted_close)

\* adjustment_factor = adjusted_close / original_close (line 191).
AdjustmentFactor(adjusted_close, original_close) ==
  RatDiv(adjusted_close, original_close)

\* The body of the loop's try (lines 186-211): the row of one bar, or the
\* exception the first failing evaluation raises.
ParseBar(timestamp, values) ==
  IF "5. adjusted close" \in DOMAIN values
  THEN LET conversions == <<Conv(values, "4. close"),
                            Conv(values, "5. adjusted close")>>
           division == IF FirstError(conversions) = "ok"
                          /\ values["4. close"].n = 0
                       THEN "ZeroDivisionError" ELSE "ok"
           error == FirstError(conversions \o <<division,
                      Conv(values, "1. open"), Conv(values, "2. high"),
                      Conv(values, "3. low"), Conv(values, "6. volume")>>)
           adjustment_factor ==
             AdjustmentFactor(Float(values, "5. adjusted close"),
                              Float(values, "4. close"))
       IN [error |-> error,
           row |-> IF error # "ok" THEN <<>>
                   ELSE [Datetime |-> timestamp,
                         Open |-> RatMul(Float(values, "1. open"), adjustment_factor),
                         High |-> RatMul(Float(values, "2. high"), adjustment_factor),
                         Low |-> RatMul(Float(values, "3. low"), adjustment_factor),
                         Close |-> Float(values, "5. adjusted close"),
                         Volume |-> values["6. volume"].n]]
  ELSE LET error == FirstError(<<Conv(values, "1. open"), Conv(values, "2. high"),
                                 Conv(values, "3. low"), Conv(values, "4. close"),
                                 Conv(values, "5. volume")>>)
       IN [error |-> error,
           row |-> IF error # "ok" THEN <<>>
                   ELSE [Datetime |-> timestamp,
                         Open |-> Float(values, "1. open"),
                         High |-> Float(values, "2. high"),
                         Low |-> Float(values, "3. low"),
                         Close |-> Float(values, "4. close"),
                         Volume |-> values["5. volume"].n]]

\* The loop of lines 183-215 from bar n on: KeyError and ValueError skip the
\* bar, any other exception leaves the loop.
RECURSIVE ParseLoop(_, _, _)
ParseLoop(time_series, n, df_data) ==
  IF n > Len(time_series) THEN [raised |-> "none", df_data |-> df_data]
  ELSE LET bar == ParseBar(time_series[n].timestamp, time_series[n].values)
       IN IF bar.error = "ok"
          THEN ParseLoop(time_series, n + 1, Append(df_data, bar.row))
          ELSE IF bar.error \in {"KeyError", "ValueError"}
          THEN ParseLoop(time_series, n + 1, df_data)
          ELSE [raised |-> bar.error, df_data |-> df_data]

\* df.sort_index(): rows in ascending Datetime.
RECURSIVE SortIndex(_)
SortIndex(df) ==
  IF df = <<>> THEN <<>>
  ELSE LET first == CHOOSE i \in 1..Len(df) :
                      \A j \in 1..Len(df) :
                        df[i].Datetime < df[j].Datetime
                          \/ (df[i].Datetime = df[j].Datetime /\ i <= j)
       IN <<df[first]>> \o
          SortIndex([k \in 1..(Len(df) - 1) |->
                       IF k < first THEN df[k] ELSE df[k + 1]])

\* datetime.now(), in days.
now == 5 * 365 + 200

\* The timedelta of _filter_data_by_interval, in days; 0 where no branch
\* applies.
LookbackDays(interval) ==
  CASE interval \in {"1d", "1wk", "1mo", "3mo"} -> 5 * 365
    [] interval \in {"30m", "60m"} -> 30
    [] interval \in {"5m", "15m"} -> 5
    [] interval = "1m" -> 1
    [] OTHER -> 0

HasWindow(interval) ==
  interval \in {"1d", "1wk", "1mo", "3mo", "30m", "60m", "5m", "15m", "1m"}

filter_data_by_interval(df, interval) ==
  IF df = <<>> \/ ~HasWindow(interval) THEN df
  ELSE LET start_date == now - LookbackDays(interval)
           Recent(r) == r.Datetime >= start_date
       IN SelectSeq(df, Recent)

\* _parse_stock_price_data_response: the frame returned; every exception
\* inside is caught at line 230 and an empty frame returned.
parse_stock_price_data_response(data, interval) ==
  IF ~data.has_key \/ data.time_series = <<>> THEN <<>>
  ELSE LET parsed == ParseLoop(data.time_series, 1, <<>>)
           df == SortIndex(parsed.df_data)
           df_filtered == filter_data_by_interval(df, interval)
       IN IF parsed.raised # "none" \/ parsed.df_data = <<>> THEN <<>>
          ELSE df

\* Lines 131-140 of _fetch_stock_price_data: an empty frame raises, another
\* is stored under 'stock_price'.
StoreParsed(data, interval) ==
  LET df == parse_stock_price_data_response(data, interval)
  IN IF df = <<>> THEN [raised |-> TRUE, stock_price |-> <<>>]
     ELSE [raised |-> FALSE, stock_price |-> df]

\* The fields of a bar in the raw format and in the adjusted format.
RawValues(open, close) ==
  [k \in {"1. open", "2. high", "3. low", "4. close", "5. volume"} |->
     CASE k = "1. open" -> open
       [] k = "2. high" -> Str(6)
       [] k = "3. low" -> Str(2)
       [] k = "4. close" -> close
       [] OTHER -> Str(100)]

AdjustedValues(open, close, adjusted_close) ==
  [k \in {"1. open", "2. high", "3. low", "4. close", "5. adjusted close",
          "6. volume"} |->
     CASE k = "1. open" -> open
       [] k = "2. high" -> Str(6)
       [] k = "3. low" -> Str(2)
       [] k = "4. close" -> close
       [] k = "5. adjusted close" -> adjusted_close
       [] OTHER -> Str(100)]

Without(values, key) == [k \in DOMAIN values \ {key} |-> values[k]]

\* Bars a response may hold: well formed, with a field that is no number,
\* null or absent, with a raw close of zero.
BarValues ==
  {RawValues(o, c) : o \in {Str(4), BadText, JsonNull}, c \in {Str(4), Str(0)}}
    \cup {Without(RawValues(Str(4), Str(4)), "4. close")}
    \cup {AdjustedValues(Str(4), c, a) :
            c \in {Str(4), Str(0)}, a \in {Str(2), BadText}}
    \cup {Without(AdjustedValues(Str(4), Str(4), Str(2)), "6. volume")}

\* Ages of the bars in days: inside every window, inside the 5-day one,
\* inside the 30-day one, older than five years.
AgesDays == {0, 3, 20, 2000}

Bars == {[timestamp |-> now - age, values |-> v] : age \in AgesDays, v \in BarValues}

\* The time series of a response: a JSON object, one bar per timestamp.
TimeSeries ==
  UNION {{ts \in [1..n -> Bars] :
            \A i, j \in 1..n : i # j => ts[i].timestamp # ts[j].timestamp} :
         n \in 0..MaxBars}

Responses ==
  {[has_key |-> TRUE, time_series |-> ts] : ts \in TimeSeries}
    \cup {[has_key |-> FALSE, time_series |-> <<>>]}

ParseIntervals == {"1m", "30m", "1d"}

NoParsed == [raised |-> FALSE, stock_price |-> <<>>]

InitParse ==
  /\ InitSave
  /\ InitBatch(<<>>, 0)
  /\ calc \in {[fn |-> "parse", data |-> d, interval |-> iv, done |-> FALSE,
                result |-> NoParsed] : d \in Responses, iv \in ParseIntervals}

\* A response is parsed and its frame stored.
ParseResponse ==
  /\ calc.fn = "parse"
  /\ ~calc.done
  /\ calc' = [calc EXCEPT !.done = TRUE,
                          !.result = StoreParsed(calc.data, calc.interval)]
  /\ UNCHANGED <<saveVars, nCalls, batchVars>>

NextParse == ParseResponse

SpecParse == InitParse /\ [][NextParse]_vars

\* The bars of the response at hand that convert, and the stored rows.
GoodBars ==
  {n \in 1..Len(calc.data.time_series) :
     ParseBar(calc.data.time_series[n].timestamp,
              calc.data.time_series[n].values).error = "ok"}

StoredRows ==
  {calc.result.stock_price[n] : n \in 1..Len(calc.result.stock_price)}

\* C11: a bar that fails conversion is skipped and every other bar is parsed
\* and returned; the fetch fails only when no bar of the response converts.
C11_BadBarSkipped ==
  (calc.fn = "parse" /\ calc.done) =>
    /\ calc.result.raised <=> GoodBars = {}
    /\ {r.Datetime : r \in StoredRows}
         = {calc.data.time_series[n].timestamp : n \in GoodBars}

\* C12: the stored series holds no bar older than the interval's window
\* start, holds every parsed bar at or after it, and is in ascending order.
C12_TrimmedToWindow ==
  (calc.fn = "parse" /\ calc.done /\ ~calc.result.raised) =>
    LET start_date == now - LookbackDays(calc.interval)
        df == calc.result.stock_price
    IN /\ \A r \in StoredRows : r.Datetime >= start_date
       /\ \A n \in GoodBars :
            calc.data.time_series[n].timestamp >= start_date =>
              \E r \in StoredRows :
                r.Datetime = calc.data.time_series[n].timestamp
       /\ \A i, j \in 1..Len(df) : i < j => df[i].Datetime < df[j].Datetime

\* C13: a stored row of a bar with an adjusted close has Close = adjusted
\* close, Open, High, Low = raw * adjustedClose / rawClose, Volume = raw
\* volume; a stored row of a bar without one has the raw values.
C13_AdjustedUniformly ==
  (calc.fn = "parse" /\ calc.done) =>
    \A r \in StoredRows :
      \E n \in GoodBars :
        LET bar == calc.data.time_series[n]
            v == bar.values
        IN /\ bar.timestamp = r.Datetime
           /\ IF "5. adjusted close" \in DOMAIN v
              THEN /\ r.Close = Rat(v["5. adjusted close"].n, 1)
                   /\ r.Open = Rat(v["1. open"].n * v["5. adjusted close"].n,
                                   v["4. close"].n)
                   /\ r.High = Rat(v["2. high"].n * v["5. adjusted close"].n,
                                   v["4. close"].n)
                   /\ r.Low = Rat(v["3. low"].n * v["5. adjusted close"].n,
                                  v["4. close"].n)
                   /\ r.Volume = v["6. volume"].n
              ELSE /\ r.Close = Rat(v["4. close"].n, 1)
                   /\ r.Open = Rat(v["1. open"].n, 1)
                   /\ r.High = Rat(v["2. high"].n, 1)
                   /\ r.Low = Rat(v["3. low"].n, 1)
                   /\ r.Volume = v["5. volume"].n

\* A frame with a row of an adjusted bar (factor 1/2) and a row of a raw bar.
C13_Witness ==
  /\ calc.fn = "parse" /\ calc.done
  /\ \E r1, r2 \in StoredRows :
       /\ r1.Close = Rat(2, 1) /\ r1.Open = Rat(2, 1) /\ r1.High = Rat(3, 1)
       /\ r2.Close = Rat(4, 1) /\ r2.Open = Rat(4, 1) /\ r2.High = Rat(6, 1)

\* ------------------------------------------------- the parameter tables
\* params of moving_average_algorithm (standard deviations in tenths,
\* thresholds in hundredths).
MAProfile(periods, period, up, dn, overb, overs) ==
  [ma_period |-> periods, bbands_period |-> period,
   bbands_std_up |-> Rat(up, 10), bbands_std_dn |-> Rat(dn, 10),
   bbands_overb_threshold |-> Rat(overb, 100),
   bbands_overs_threshold |-> Rat(overs, 100)]

ma_params ==
  [i \in {"1m", "5m", "15m", "30m", "60m", "1d", "1wk", "1mo", "3mo"} |->
     CASE i = "1m" -> MAProfile(<<5, 10, 20, 30, 60, 120>>, 20, 22, 20, 85, 15)
       [] i = "5m" -> MAProfile(<<6, 12, 24, 36, 72, 144>>, 18, 21, 21, 83, 17)
       [] i = "15m" -> MAProfile(<<4, 8, 16, 24, 48, 96>>, 15, 20, 20, 80, 20)
       [] i = "30m" -> MAProfile(<<3, 6, 12, 18, 36, 72>>, 12, 19, 19, 80, 20)
       [] i = "60m" -> MAProfile(<<3, 5, 8, 13, 21, 34>>, 10, 18, 18, 80, 20)
       [] i = "1d" -> MAProfile(<<5, 10, 20, 30, 60, 120, 250>>, 20, 20, 20, 80, 20)
       [] i = "1wk" -> MAProfile(<<5, 10, 20, 30, 60>>, 18, 21, 21, 75, 25)
       [] i = "1mo" -> MAProfile(<<3, 5, 10, 12, 24, 36>>, 10, 23, 23, 75, 25)
       [] OTHER -> MAProfile(<<2, 4, 8, 12, 16>>, 6, 24, 24, 70, 30)]

KDJProfile(fastk, slowk, slowd, overbought, oversold) ==
  [fastk_period |-> fastk, slowk_period |-> slowk, slowd_period |-> slowd,
   overbought |-> overbought, oversold |-> oversold]

kdj_params ==
  [i \in {"1m", "5m", "15m", "30m", "60m", "1d", "1wk", "1mo", "3mo"} |->
     CASE i = "1m" -> KDJProfile(5, 2, 2, 85, 15)
       [] i = "5m" -> KDJProfile(7, 3, 3, 83, 17)
       [] i \in {"15m", "30m", "60m", "1d"} -> KDJProfile(9, 3, 3, 80, 20)
       [] i = "1wk" -> KDJProfile(7, 3, 3, 75, 25)
       [] i = "1mo" -> KDJProfile(5, 3, 3, 75, 25)
       [] OTHER -> KDJProfile(5, 3, 3, 70, 30)]

MACDProfile(fast, slow, signal) ==
  [fastperiod |-> fast, slowperiod |-> slow, signalperiod |-> signal]

macd_params ==
  [i \in {"1m", "5m", "15m", "30m", "60m", "1d", "1wk", "1mo", "3mo"} |->
     CASE i = "1m" -> MACDProfile(6, 13, 4)
       [] i = "5m" -> MACDProfile(8, 17, 5)
       [] i = "15m" -> MACDProfile(10, 21, 7)
       [] i = "30m" -> MACDProfile(10, 23, 8)
       [] i \in {"60m", "1d"} -> MACDProfile(12, 26, 9)
       [] i = "1wk" -> MACDProfile(8, 17, 7)
       [] i = "1mo" -> MACDProfile(6, 13, 6)
       [] OTHER -> MACDProfile(4, 8, 3)]

RSIProfile(timeperiod, overbought, oversold) ==
  [timeperiod |-> timeperiod, overbought |-> overbought, oversold |-> oversold]

rsi_params ==
  [i \in {"1m", "5m", "15m", "30m", "60m", "1d", "1wk", "1mo", "3mo"} |->
     CASE i = "1m" -> RSIProfile(9, 75, 25)
       [] i = "5m" -> RSIProfile(11, 73, 27)
       [] i = "15m" -> RSIProfile(12, 72, 28)
       [] i = "30m" -> RSIProfile(13, 71, 29)
       [] i \in {"60m", "1d"} -> RSIProfile(14, 70, 30)
       [] i = "1wk" -> RSIProfile(10, 65, 35)
       [] i = "1mo" -> RSIProfile(8, 65, 35)
       [] OTHER -> RSIProfile(6, 60, 40)]

ma_type_mapping ==
  [t \in {"sma", "ema", "wma", "dema", "tema", "trima", "kama"} |->
     CASE t = "sma" -> 0 [] t = "ema" -> 1 [] t = "wma" -> 2 [] t = "dema" -> 3
       [] t = "tema" -> 4 [] t = "trima" -> 5 [] OTHER -> 6]

\* The table an indicator computation reads.
ParamsOf(family) ==
  CASE family = "macd" -> macd_params
    [] family = "rsi" -> rsi_params
    [] family = "kdj" -> kdj_params
    [] OTHER -> ma_params

\* stock_technical_data[interval]['stock_price'] on the defaultdict of
\* line 46: the frame a fetch stored, else a fresh empty dict.
StockPriceOf(technical, interval) ==
  IF interval \in technical THEN "DataFrame" ELSE "dict"

\* The start of an indicator computation, up to its first use of params:
\* the exception raised, or "none" and the profile used.
\*   moving_average_algorithm 339-419, macd_formula 629-633,
\*   rsi_formula 710-714: the frame is looked up, the interval checked, the
\*     Close column read;
\*   kdj_formula 452-524: the frame is looked up and its High, Low and Close
\*     columns read, then the interval checked.
IndicatorStart(family, interval, technical) ==
  LET df == StockPriceOf(technical, interval)
      params == ParamsOf(family)
      unsupported == [raised |-> "ValueError: Unsupported interval",
                      profile |-> <<>>]
      no_column == [raised |-> "KeyError", profile |-> <<>>]
      started == [raised |-> "none", profile |-> params[interval]]
  IN IF family = "kdj"
     THEN IF df = "dict" THEN no_column
          ELSE IF interval \notin DOMAIN params THEN unsupported
          ELSE started
     ELSE IF family \notin {"macd", "rsi"} /\ family \notin DOMAIN ma_type_mapping
     THEN [raised |-> "ValueError: Unsupported ma_type", profile |-> <<>>]
     ELSE IF interval \notin DOMAIN params THEN unsupported
     ELSE IF df = "dict" THEN no_column
     ELSE started

\* stock_technical_data after the call, interval -> what its 'stock_price'
\* holds. The mapping is defaultdict(lambda: defaultdict(dict)) (line 46):
\* the lookup [interval]['stock_price'] of lines 412, 452, 629 and 710
\* creates the interval's entry, with an empty dict under 'stock_price',
\* when the mapping has none. moving_average_algorithm raises on an unknown
\* ma_type (line 342) before it looks the frame up.
EntriesAfter(family, interval, technical) ==
  LET looked_up ==
        family \in {"macd", "rsi", "kdj"} \/ family \in DOMAIN ma_type_mapping
      keys == IF looked_up THEN technical \cup {interval} ELSE technical
  IN [iv \in keys |-> StockPriceOf(technical, iv)]

\* Intervals an indicator computation may be called with: the nine of the
\* tables and others.
CallIntervals ==
  {"1m", "5m", "15m", "30m", "60m", "1d", "1wk", "1mo", "3mo", "2h", "1y", ""}

Families == {"sma", "ema", "wma", "dema", "tema", "kama", "macd", "rsi", "kdj"}

\* The intervals whose price frame a fetcher can hold: those of
\* av_interval_mapping, the only ones _fetch_stock_price_data accepts.
FetchableIntervals == {av_interval_order[k] : k \in 1..Len(av_interval_order)}

InitProfile ==
  /\ InitSave
  /\ InitBatch(<<>>, 0)
  /\ calc \in {[fn |-> "indicator", family |-> f, interval |-> iv,
                technical |-> t, done |-> FALSE,
                result |-> [raised |-> "none", profile |-> <<>>],
                entries |-> [e \in t |-> "DataFrame"]] :
               f \in Families, iv \in CallIntervals,
               t \in {{}, FetchableIntervals}}

\* An indicator computation is called.
CallIndicator ==
  /\ calc.fn = "indicator"
  /\ ~calc.done
  /\ calc' = [calc EXCEPT !.done = TRUE,
                !.result = IndicatorStart(calc.family, calc.interval,
                                          calc.technical),
                !.entries = EntriesAfter(calc.family, calc.interval,
                                         calc.technical)]
  /\ UNCHANGED <<saveVars, nCalls, batchVars>>

NextProfile == CallIndicator

SpecProfile == InitProfile /\ [][NextProfile]_vars

NineIntervals == {"1m", "5m", "15m", "30m", "60m", "1d", "1wk", "1mo", "3mo"}

\* C14: each of the four parameter tables has one profile for each of the
\* nine intervals, so every fetched interval has one in every table; an
\* indicator computation called with another interval raises the
\* unsupported-interval error.
C14_ProfilesTotal ==
  /\ \A f \in Families : DOMAIN ParamsOf(f) = NineIntervals
  /\ \A f \in Families : FetchableIntervals \subseteq DOMAIN ParamsOf(f)
  /\ (calc.fn = "indicator" /\ calc.done) =>
       /\ calc.interval \notin NineIntervals =>
            calc.result.raised = "ValueError: Unsupported interval"
       /\ (calc.interval \in NineIntervals /\ calc.result.raised = "none") =>
            calc.result.profile = ParamsOf(calc.family)[calc.interval]

\* ------------------------------------------------------------ kdj_formula
\* Bars of a price frame given to an indicator computation.
MaxSeriesLen == 6
\* RSV values after the warm-up of a stochastic computation.
MaxRsvTail == 5

RatAdd(x, y) == Rat(x.num * y.den + y.num * x.den, x.den * y.den)
RatSub(x, y) == Rat(x.num * y.den - y.num * x.den, x.den * y.den)
RatLt(x, y) == x.num * y.den < y.num * x.den

\* Comparisons of floats: False when either side is NaN.
Gt(x, y) == x # NaN /\ y # NaN /\ RatLt(y, x)
Lt(x, y) == x # NaN /\ y # NaN /\ RatLt(x, y)
Ge(x, y) == x # NaN /\ y # NaN /\ ~RatLt(x, y)
Le(x, y) == x # NaN /\ y # NaN /\ ~RatLt(y, x)

\* series.shift(1) at bar n.
Shift1(series, n) == IF n = 1 THEN NaN ELSE series[n - 1]

\* A rolling window that yields a value from the first bar on.
RollingAlwaysDefined(n, period) == TRUE

\* Series.rolling(period): a value only once the window is full.
RollingDefined(n, period) == n >= period

WindowOf(n, period) == {m \in 1..n : m > n - period}

\* The minimum and the maximum of the window ending at bar n.
RollingMin(series, n, period) ==
  CHOOSE v \in {series[m] : m \in WindowOf(n, period)} :
    \A m \in WindowOf(n, period) : v <= series[m]

RollingMax(series, n, period) ==
  CHOOSE v \in {series[m] : m \in WindowOf(n, period)} :
    \A m \in WindowOf(n, period) : v >= series[m]

\* rsv = 100 * (C - low_list) / (high_list - low_list) (lines 524-526); NaN
\* while the window is not full and where the window is flat (0 / 0). The
\* frames have Low <= Close <= High at every bar.
Rsv(df, fastk_period) ==
  [n \in 1..Len(df) |->
     IF ~RollingDefined(n, fastk_period) THEN NaN
     ELSE LET low == RollingMin([m \in 1..Len(df) |-> df[m].Low], n, fastk_period)
              high == RollingMax([m \in 1..Len(df) |-> df[m].High], n, fastk_period)
          IN IF high = low THEN NaN
             ELSE Rat(100 * (df[n].Close - low), high - low)]

\* The carried value is set back to the seed at a missing input.
CarryResets(carry, seed) == seed

\* else: append(np.nan) (lines 541-542, 549-550): the carried value stays.
CarryAfterMissing(carry, seed) == carry

\* The loops of lines 536-550: x0 = factor * v + (1 - factor) * x0 at every
\* value that is not NaN.
RECURSIVE SmoothFrom(_, _, _, _, _, _)
SmoothFrom(values, n, factor, carry, seed, out) ==
  IF n > Len(values) THEN out
  ELSE IF values[n] # NaN
  THEN LET x0 == RatAdd(RatMul(factor, values[n]),
                        RatMul(RatSub(Rat(1, 1), factor), carry))
       IN SmoothFrom(values, n + 1, factor, x0, seed, Append(out, x0))
  ELSE SmoothFrom(values, n + 1, factor, CarryAfterMissing(carry, seed), seed,
                  Append(out, NaN))

Smooth(values, factor, seed) == SmoothFrom(values, 1, factor, seed, seed, <<>>)

\* A cross signal that looks at the current bar alone.
KdjCrossCurrentOnly(k, d, k_prev, d_prev) ==
  IF Gt(k, d) THEN 1 ELSE IF Lt(k, d) THEN -1 ELSE 0

\* kdj_cross_signal at one bar (lines 560-561).
KdjCross(k, d, k_prev, d_prev) ==
  IF k # NaN /\ d # NaN /\ Gt(k, d) /\ Le(k_prev, d_prev) THEN 1
  ELSE IF k # NaN /\ d # NaN /\ Lt(k, d) /\ Ge(k_prev, d_prev) THEN -1
  ELSE 0

\* An overbought/oversold signal that fires when either line is out of band.
KdjOverbsEither(k, d, profile) ==
  IF Gt(k, Rat(profile.overbought, 1)) \/ Gt(d, Rat(profile.overbought, 1))
  THEN -1
  ELSE IF Lt(k, Rat(profile.oversold, 1)) \/ Lt(d, Rat(profile.oversold, 1))
  THEN 1 ELSE 0

\* kdj_overbs_signal at one bar (lines 563-564).
KdjOverbs(k, d, profile) ==
  LET first == IF k # NaN /\ d # NaN /\ Gt(k, Rat(profile.overbought, 1))
                  /\ Gt(d, Rat(profile.overbought, 1))
               THEN -1 ELSE 0
  IN IF k # NaN /\ d # NaN /\ Lt(k, Rat(profile.oversold, 1))
        /\ Lt(d, Rat(profile.oversold, 1))
     THEN 1 ELSE first

\* Lines 528-572: K, D, J and the two signals from the RSV values.
KdjFromRsv(rsv, profile) ==
  LET k_factor == Rat(1, profile.slowk_period)
      d_factor == Rat(1, profile.slowd_period)
      k_list == Smooth(rsv, k_factor, Rat(50, 1))
      d_list == Smooth(k_list, d_factor, Rat(50, 1))
      j_list == [n \in 1..Len(rsv) |->
                   IF k_list[n] = NaN \/ d_list[n] = NaN THEN NaN
                   ELSE RatSub(RatMul(Rat(3, 1), k_list[n]),
                               RatMul(Rat(2, 1), d_list[n]))]
  IN [raised |-> "none", rsv |-> rsv, k |-> k_list, d |-> d_list, j |-> j_list,
      kdj_cross_signal |->
        [n \in 1..Len(rsv) |->
           KdjCross(k_list[n], d_list[n], Shift1(k_list, n), Shift1(d_list, n))],
      kdj_overbs_signal |->
        [n \in 1..Len(rsv) |-> KdjOverbs(k_list[n], d_list[n], profile)]]

\* kdj_formula on the price frame of an interval of the table.
kdj_formula(df, interval) ==
  KdjFromRsv(Rsv(df, kdj_params[interval].fastk_period), kdj_params[interval])

\* Bars of a price frame: flat, closing at the high, at the low, between.
PriceBars ==
  {[High |-> 10, Low |-> 10, Close |-> 10], [High |-> 20, Low |-> 10, Close |-> 20],
   [High |-> 20, Low |-> 10, Close |-> 10], [High |-> 20, Low |-> 10, Close |-> 15]}

PriceSeries == UNION {[1..n -> PriceBars] : n \in 1..MaxSeriesLen}

\* RSV values: the warm-up of fastk_period - 1 missing values, then values
\* between 0 and 100 and missing ones (flat windows).
RsvValues == {NaN, Rat(0, 1), Rat(20, 1), Rat(80, 1), Rat(100, 1)}

RsvSeries(fastk_period) ==
  {[n \in 1..(fastk_period - 1) |-> NaN] \o tail :
     tail \in UNION {[1..n -> RsvValues] : n \in 0..MaxRsvTail}}

NoKdj ==
  [raised |-> "none", rsv |-> <<>>, k |-> <<>>, d |-> <<>>, j |-> <<>>,
   kdj_cross_signal |-> <<>>, kdj_overbs_signal |-> <<>>]

InitKdj ==
  /\ InitSave
  /\ InitBatch(<<>>, 0)
  /\ calc \in
       {[fn |-> "kdj", interval |-> iv, df |-> df, rsv |-> <<>>,
         done |-> FALSE, result |-> NoKdj] :
          iv \in {"1m", "1d"}, df \in PriceSeries}
       \cup
       {[fn |-> "kdj_rsv", interval |-> iv, df |-> <<>>, rsv |-> r,
         done |-> FALSE, result |-> NoKdj] :
          iv \in {"1m"}, r \in RsvSeries(kdj_params["1m"].fastk_period)}

\* kdj_formula on the price frame of an interval.
CallKdjFormula ==
  /\ calc.fn = "kdj"
  /\ ~calc.done
  /\ calc' = [calc EXCEPT !.done = TRUE,
                          !.result = kdj_formula(calc.df, calc.interval)]
  /\ UNCHANGED <<saveVars, nCalls, batchVars>>

\* Lines 528-572 of kdj_formula on the RSV values of line 526.
SmoothRsv ==
  /\ calc.fn = "kdj_rsv"
  /\ ~calc.done
  /\ calc' = [calc EXCEPT !.done = TRUE,
                          !.result = KdjFromRsv(calc.rsv, kdj_params[calc.interval])]
  /\ UNCHANGED <<saveVars, nCalls, batchVars>>

NextKdj == CallKdjFormula \/ SmoothRsv

SpecKdj == InitKdj /\ [][NextKdj]_vars

KdjDone == calc.fn \in {"kdj", "kdj_rsv"} /\ calc.done

\* The value of `series` at the latest bar before n where `given` is
\* defined, the seed when there is none.
LastBefore(given, series, n, seed) ==
  LET earlier == {m \in 1..(n - 1) : given[m] # NaN}
  IN IF earlier = {} THEN seed
     ELSE series[CHOOSE m \in earlier : \A x \in earlier : x <= m]

\* factor * v + (1 - factor) * prev, for factor = 1 / period.
Blend(period, v, prev) ==
  Rat(v.num * prev.den + (period - 1) * prev.num * v.den,
      period * v.den * prev.den)

\* C15: K at a bar with defined RSV is (1/slowK)*RSV + (1 - 1/slowK)*Kprev,
\* Kprev the K of the latest earlier bar with defined RSV or the seed 50; D
\* likewise from K; a bar with undefined RSV has no K and no D and leaves the
\* carried values as they are.
C15_StateCarriedOverGaps ==
  KdjDone =>
    LET r == calc.result
        profile == kdj_params[calc.interval]
    IN \A n \in 1..Len(r.rsv) :
         /\ r.k[n] = IF r.rsv[n] = NaN THEN NaN
                     ELSE Blend(profile.slowk_period, r.rsv[n],
                                LastBefore(r.rsv, r.k, n, Rat(50, 1)))
         /\ r.d[n] = IF r.k[n] = NaN THEN NaN
                     ELSE Blend(profile.slowd_period, r.k[n],
                                LastBefore(r.k, r.d, n, Rat(50, 1)))

\* An interior gap: K before the gap has left the seed, and K after the gap
\* is computed.
C15_Witness ==
  /\ KdjDone
  /\ \E m, n, q \in 1..Len(calc.result.rsv) :
       /\ m < n /\ n < q
       /\ calc.result.rsv[m] # NaN /\ calc.result.k[m] # Rat(50, 1)
       /\ calc.result.rsv[n] = NaN
       /\ calc.result.rsv[q] # NaN
       /\ \A x \in (m + 1)..(q - 1) : calc.result.rsv[x] = NaN

\* C16: on a frame of L >= 1 bars kdj_formula returns K, D, J of length L
\* and does not raise; K, D, J are missing exactly where RSV is, so at the
\* first fastk_period - 1 bars; elsewhere J = 3K - 2D; both signals are 0
\* where K or D is missing.
C16_ShortSeriesAllMissing ==
  (calc.fn = "kdj" /\ calc.done) =>
    LET r == calc.result
        L == Len(calc.df)
        fastk_period == kdj_params[calc.interval].fastk_period
    IN /\ r.raised = "none"
       /\ Len(r.k) = L /\ Len(r.d) = L /\ Len(r.j) = L
       /\ Len(r.kdj_cross_signal) = L /\ Len(r.kdj_overbs_signal) = L
       /\ \A n \in 1..L :
            /\ n < fastk_period => r.rsv[n] = NaN
            /\ r.k[n] = NaN <=> r.rsv[n] = NaN
            /\ r.d[n] = NaN <=> r.rsv[n] = NaN
            /\ r.j[n] = NaN <=> r.rsv[n] = NaN
            /\ r.rsv[n] # NaN =>
                 r.j[n] = Rat(3 * r.k[n].num * r.d[n].den
                                - 2 * r.d[n].num * r.k[n].den,
                              r.k[n].den * r.d[n].den)
            /\ (r.k[n] = NaN \/ r.d[n] = NaN) =>
                 r.kdj_cross_signal[n] = 0 /\ r.kdj_overbs_signal[n] = 0

\* A frame shorter than the '1d' window of 9: every output is missing.
C16_Witness ==
  /\ calc.fn = "kdj" /\ calc.done
  /\ calc.interval = "1d"
  /\ Len(calc.df) = 6
  /\ \E n \in 1..6 : calc.df[n].High # calc.df[n].Low
  /\ \A n \in 1..6 : calc.result.k[n] = NaN /\ calc.result.j[n] = NaN

\* The cross value of bar n as stated: from K and D at n and at n - 1.
StatedCross(r, n) ==
  IF n = 1 THEN 0
  ELSE IF r.k[n] = NaN \/ r.d[n] = NaN \/ r.k[n - 1] = NaN \/ r.d[n - 1] = NaN
  THEN 0
  ELSE IF RatLt(r.d[n], r.k[n]) /\ ~RatLt(r.d[n - 1], r.k[n - 1]) THEN 1
  ELSE IF RatLt(r.k[n], r.d[n]) /\ ~RatLt(r.k[n - 1], r.d[n - 1]) THEN -1
  ELSE 0

\* C17: the cross signal is +1 when K > D and K <= D one bar earlier, -1 when
\* K < D and K >= D one bar earlier, 0 otherwise and whenever K or D is
\* missing at the bar or one bar earlier (first bar, first bar after a gap).
C17_CrossNeedsBothBars ==
  KdjDone =>
    \A n \in 1..Len(calc.result.k) :
      calc.result.kdj_cross_signal[n] = StatedCross(calc.result, n)

\* A golden cross, a death cross, and a bar after a gap where K > D gives 0.
C17_Witness ==
  /\ KdjDone
  /\ \E n, m \in 1..Len(calc.result.k) :
       calc.result.kdj_cross_signal[n] = 1 /\ calc.result.kdj_cross_signal[m] = -1
  /\ \E n \in 2..Len(calc.result.k) :
       /\ calc.result.k[n - 1] = NaN /\ calc.result.k[n] # NaN
       /\ RatLt(calc.result.d[n], calc.result.k[n])
       /\ calc.result.kdj_cross_signal[n] = 0

\* C18: the overbought/oversold signal is -1 when K and D are both above the
\* overbought band, +1 when both are below the oversold band, else 0; a
\* nonzero cross value of the same bar stays what it is.
C18_OverboughtOversold ==
  KdjDone =>
    LET r == calc.result
        profile == kdj_params[calc.interval]
    IN \A n \in 1..Len(r.k) :
         /\ r.kdj_overbs_signal[n] =
              IF r.k[n] = NaN \/ r.d[n] = NaN THEN 0
              ELSE IF r.k[n].num > profile.overbought * r.k[n].den
                      /\ r.d[n].num > profile.overbought * r.d[n].den THEN -1
              ELSE IF r.k[n].num < profile.oversold * r.k[n].den
                      /\ r.d[n].num < profile.oversold * r.d[n].den THEN 1
              ELSE 0
         /\ (r.kdj_overbs_signal[n] # 0 /\ StatedCross(r, n) # 0) =>
              r.kdj_cross_signal[n] = StatedCross(r, n)

\* A death cross inside the overbought band: both signals are -1 at the bar.
C18_Witness ==
  /\ KdjDone
  /\ \E n \in 1..Len(calc.result.k) :
       calc.result.kdj_overbs_signal[n] = -1 /\ calc.result.kdj_cross_signal[n] = -1
  /\ \E n \in 1..Len(calc.result.k) :
       calc.result.kdj_overbs_signal[n] = 0 /\ calc.result.k[n] # NaN

\* ----------------------------------------------------------- macd_formula
\* Bars with a MACD value, after the warm-up.
MaxMacdLen == 3

\* What talib.MACD returns for the third output: macd - signal, NaN where
\* either is NaN.
TalibHist(macd, signal) ==
  [n \in 1..Len(macd) |->
     IF macd[n] = NaN \/ signal[n] = NaN THEN NaN ELSE RatSub(macd[n], signal[n])]

\* The conventional histogram, not scaled.
HistUnscaled(hist) == hist

\* macd_hist = macd_hist*2 (line 634); NaN * 2 is NaN.
HistDoubled(hist) ==
  [n \in 1..Len(hist) |->
     IF hist[n] = NaN THEN NaN ELSE RatMul(hist[n], Rat(2, 1))]

\* A cross signal that counts macd = 0 as above the axis.
MacdCrossZeroAbove(macd, signal, macd_prev, signal_prev) ==
  LET up == macd_prev # NaN /\ signal_prev # NaN /\ Gt(macd, signal)
            /\ Le(macd_prev, signal_prev)
      down == macd_prev # NaN /\ signal_prev # NaN /\ Lt(macd, signal)
              /\ Ge(macd_prev, signal_prev)
  IN IF Ge(macd, Rat(0, 1)) THEN (IF up THEN 2 ELSE IF down THEN -1 ELSE 0)
     ELSE IF up THEN 1 ELSE IF down THEN -2 ELSE 0

\* macd_cross_signal at one bar: the two np.where of lines 644-647, the
\* second keeping the first's value where it does not fire.
MacdCross(macd, signal, macd_prev, signal_prev) ==
  LET zero == Rat(0, 1)
      up == macd_prev # NaN /\ signal_prev # NaN /\ Gt(macd, signal)
            /\ Le(macd_prev, signal_prev)
      down == macd_prev # NaN /\ signal_prev # NaN /\ Lt(macd, signal)
              /\ Ge(macd_prev, signal_prev)
      first == IF Gt(macd, zero) /\ up THEN 2
               ELSE IF Gt(macd, zero) /\ down THEN -1 ELSE 0
  IN IF Lt(macd, zero) /\ up THEN 1
     ELSE IF Lt(macd, zero) /\ down THEN -2
     ELSE first

\* Lines 633-654 from the macd and signal lines talib.MACD returns.
macd_formula(macd, signal) ==
  [macd |-> macd,
   macd_signal_line |-> signal,
   macd_hist |-> HistDoubled(TalibHist(macd, signal)),
   macd_cross_signal |->
     [n \in 1..Len(macd) |->
        MacdCross(macd[n], signal[n], Shift1(macd, n), Shift1(signal, n))]]

\* The MACD keys save_technical_data puts in the record of bar n (lines
\* 114-126); the three series share the price frame's index.
MacdRecord(r, n) ==
  [macd |-> convert_to_serializable(r.macd[n]),
   macd_signal |-> convert_to_serializable(r.macd_signal_line[n]),
   macd_hist |-> convert_to_serializable(r.macd_hist[n])]

\* talib.MACD outputs: a warm-up where macd and signal are both NaN, then
\* values on either side of the axis and of each other.
MacdPairs ==
  {[macd |-> Rat(m, 1), signal |-> Rat(g, 1)] : m \in {-1, 0, 1}, g \in {-2, 0, 2}}

MacdOutputs ==
  {[n \in 1..w |-> [macd |-> NaN, signal |-> NaN]] \o tail :
     w \in 0..2, tail \in UNION {[1..n -> MacdPairs] : n \in 1..MaxMacdLen}}

NoMacd ==
  [macd |-> <<>>, macd_signal_line |-> <<>>, macd_hist |-> <<>>,
   macd_cross_signal |-> <<>>]

InitMacd ==
  /\ InitSave
  /\ InitBatch(<<>>, 0)
  /\ calc \in {[fn |-> "macd", talib |-> t, done |-> FALSE, result |-> NoMacd,
                records |-> <<>>] : t \in MacdOutputs}

\* macd_formula stores its four outputs, and save_technical_data builds the
\* MACD part of each bar's record from them.
CallMacdFormula ==
  /\ calc.fn = "macd"
  /\ ~calc.done
  /\ LET r == macd_formula([n \in 1..Len(calc.talib) |-> calc.talib[n].macd],
                           [n \in 1..Len(calc.talib) |-> calc.talib[n].signal])
     IN calc' = [calc EXCEPT !.done = TRUE, !.result = r,
                   !.records = [n \in 1..Len(calc.talib) |-> MacdRecord(r, n)]]
  /\ UNCHANGED <<saveVars, nCalls, batchVars>>

NextMacd == CallMacdFormula

SpecMacd == InitMacd /\ [][NextMacd]_vars

MacdDone == calc.fn = "macd" /\ calc.done

Defined(r, n) == r.macd[n] # NaN /\ r.macd_signal_line[n] # NaN

\* The macd cross value of bar n as stated.
StatedMacdCross(r, n) ==
  IF n = 1 THEN 0
  ELSE IF ~Defined(r, n) \/ ~Defined(r, n - 1) THEN 0
  ELSE LET m == r.macd[n]
           g == r.macd_signal_line[n]
           up == RatLt(g, m) /\ ~RatLt(r.macd_signal_line[n - 1], r.macd[n - 1])
           down == RatLt(m, g) /\ ~RatLt(r.macd[n - 1], r.macd_signal_line[n - 1])
       IN IF m.num > 0 /\ up THEN 2
          ELSE IF m.num < 0 /\ up THEN 1
          ELSE IF m.num > 0 /\ down THEN -1
          ELSE IF m.num < 0 /\ down THEN -2
          ELSE 0

\* C19: the MACD cross signal is +2 / +1 at an upward crossing with macd
\* above / below 0, -1 / -2 at a downward crossing with macd above / below
\* 0, and 0 otherwise: no crossing, a missing value at the bar or one bar
\* earlier, a crossing with macd exactly 0.
C19_MacdCrossSignal ==
  MacdDone =>
    \A n \in 1..Len(calc.result.macd) :
      calc.result.macd_cross_signal[n] = StatedMacdCross(calc.result, n)

\* A strong sell, then an upward crossing at macd = 0, which gives 0.
C19_Witness ==
  /\ MacdDone
  /\ \E m \in 1..Len(calc.result.macd) : calc.result.macd_cross_signal[m] = -2
  /\ \E n \in 2..Len(calc.result.macd) :
       /\ Defined(calc.result, n) /\ Defined(calc.result, n - 1)
       /\ calc.result.macd[n] = Rat(0, 1)
       /\ RatLt(calc.result.macd_signal_line[n], calc.result.macd[n])
       /\ ~RatLt(calc.result.macd_signal_line[n - 1], calc.result.macd[n - 1])
       /\ calc.result.macd_cross_signal[n] = 0

\* C20: where macd and its signal line are defined the stored histogram is
\* 2 * (macd - signal), elsewhere it is missing, and the macd_hist value of
\* the bar's record is that doubled value (NULL where missing).
C20_HistogramDoubled ==
  MacdDone =>
    \A n \in 1..Len(calc.result.macd) :
      LET r == calc.result
      IN IF Defined(r, n)
         THEN /\ r.macd_hist[n] =
                   Rat(2 * (r.macd[n].num * r.macd_signal_line[n].den
                            - r.macd_signal_line[n].num * r.macd[n].den),
                       r.macd[n].den * r.macd_signal_line[n].den)
              /\ calc.records[n].macd_hist = r.macd_hist[n]
         ELSE /\ r.macd_hist[n] = NaN
              /\ calc.records[n].macd_hist = NULL

\* A warm-up bar without histogram, then bars with 2 * (1 - (-2)) = 6 and
\* 2 * (-1 - 2) = -6.
C20_Witness ==
  /\ MacdDone
  /\ calc.result.macd_hist[1] = NaN
  /\ \E n, m \in 1..Len(calc.result.macd) :
       /\ calc.records[n].macd_hist = Rat(6, 1)
       /\ calc.records[m].macd_hist = Rat(-6, 1)

\* --------------------------- moving_average_algorithm: Bollinger bands
\* Bars of a series given to a per-bar signal computation.
MaxSignalLen == 2

\* The position with no clamping at the bands.
BbandsPositionUnclamped(close, upper, lower) ==
  IF upper = NaN \/ lower = NaN \/ upper = lower THEN NaN
  ELSE RatDiv(RatSub(close, lower), RatSub(upper, lower))

\* bbands_position at one bar (lines 429-434).
BbandsPosition(close, upper, lower) ==
  IF upper = NaN \/ lower = NaN THEN NaN
  ELSE IF Ge(close, upper) THEN Rat(1, 1)
  ELSE IF Le(close, lower) THEN Rat(0, 1)
  ELSE RatDiv(RatSub(close, lower), RatSub(upper, lower))

\* A signal that fires only strictly beyond the thresholds.
BbandsSignalStrict(position, profile) ==
  IF position = NaN THEN 0
  ELSE IF Gt(position, profile.bbands_overb_threshold) THEN -1
  ELSE IF Lt(position, profile.bbands_overs_threshold) THEN 1
  ELSE 0

\* bbands_overbs_signal at one bar (lines 437-441).
BbandsSignal(position, profile) ==
  IF position = NaN THEN 0
  ELSE IF Ge(position, profile.bbands_overb_threshold) THEN -1
  ELSE IF Le(position, profile.bbands_overs_threshold) THEN 1
  ELSE 0

\* Lines 428-441 over the bars of a frame: the close and the bands
\* talib.BBANDS returned for it.
bbands_signals(bars, interval) ==
  [n \in 1..Len(bars) |->
     LET position == BbandsPosition(bars[n].close, bars[n].upper, bars[n].lower)
     IN [bbands_position |-> position,
         bbands_overbs_signal |-> BbandsSignal(position, ma_params[interval])]]

\* Bars: bands in their warm-up, apart, or equal (no deviation in the
\* window); the close below, at, between and above them.  The warm-up bars
\* of a frame come first.
BbandsBars ==
  {[close |-> Rat(c, 1), upper |-> b[1], lower |-> b[2]] :
     c \in {8, 10, 11, 12, 15, 18, 19, 20, 22},
     b \in {<<NaN, NaN>>, <<Rat(20, 1), Rat(10, 1)>>, <<Rat(10, 1), Rat(10, 1)>>,
            <<Rat(15, 1), Rat(15, 1)>>}}

InitBbands ==
  /\ InitSave
  /\ InitBatch(<<>>, 0)
  /\ calc \in {[fn |-> "bbands", interval |-> iv, bars |-> b, done |-> FALSE,
                result |-> <<>>] :
               iv \in {"1m", "1d"},
               b \in {f \in UNION {[1..n -> BbandsBars] : n \in 1..MaxSignalLen} :
                        \A n \in 2..Len(f) :
                          f[n].upper = NaN => f[n - 1].upper = NaN}}

\* The Bollinger part of moving_average_algorithm.
CallBbands ==
  /\ calc.fn = "bbands"
  /\ ~calc.done
  /\ calc' = [calc EXCEPT !.done = TRUE,
                          !.result = bbands_signals(calc.bars, calc.interval)]
  /\ UNCHANGED <<saveVars, nCalls, batchVars>>

NextBbands == CallBbands

SpecBbands == InitBbands /\ [][NextBbands]_vars

BbandsDone == calc.fn = "bbands" /\ calc.done

\* C21: the position is missing when a band is undefined, 1 when close >=
\* upper, 0 when close <= lower, (close - lower) / (upper - lower) otherwise;
\* so it is missing or within [0, 1], also when the bands are equal.
C21_PositionClamped ==
  BbandsDone =>
    \A n \in 1..Len(calc.bars) :
      LET b == calc.bars[n]
          position == calc.result[n].bbands_position
      IN /\ IF b.upper = NaN \/ b.lower = NaN THEN position = NaN
            ELSE IF b.close.num >= b.upper.num THEN position = Rat(1, 1)
            ELSE IF b.close.num <= b.lower.num THEN position = Rat(0, 1)
            ELSE position = Rat(b.close.num - b.lower.num,
                                b.upper.num - b.lower.num)
         /\ position # NaN =>
              /\ position.den > 0
              /\ 0 <= position.num /\ position.num <= position.den

\* Equal bands with the close on them, and a close above the upper band.
C21_Witness ==
  /\ BbandsDone
  /\ Len(calc.bars) = 2
  /\ calc.bars[1].upper = calc.bars[1].lower /\ calc.bars[1].upper # NaN
  /\ calc.bars[1].close = calc.bars[1].upper
  /\ calc.result[1].bbands_position = Rat(1, 1)
  /\ calc.bars[2].close = Rat(22, 1) /\ calc.bars[2].upper = Rat(20, 1)
  /\ calc.result[2].bbands_position = Rat(1, 1)

\* C22: the Bollinger signal is -1 when position >= the overbought
\* threshold, +1 when position <= the oversold threshold, 0 otherwise and
\* when the position is missing; it is never missing.
C22_BbandsSignalTernary ==
  BbandsDone =>
    \A n \in 1..Len(calc.bars) :
      LET position == calc.result[n].bbands_position
          signal == calc.result[n].bbands_overbs_signal
          profile == ma_params[calc.interval]
          overb == profile.bbands_overb_threshold
          overs == profile.bbands_overs_threshold
      IN /\ signal \in {-1, 0, 1}
         /\ signal = IF position = NaN THEN 0
                     ELSE IF position.num * overb.den >= overb.num * position.den
                     THEN -1
                     ELSE IF position.num * overs.den <= overs.num * position.den
                     THEN 1
                     ELSE 0

\* A missing position gives 0, and a position equal to the '1d' overbought
\* threshold 0.80 gives -1.
C22_Witness ==
  /\ BbandsDone
  /\ calc.interval = "1d"
  /\ Len(calc.bars) = 2
  /\ calc.result[1].bbands_position = NaN
  /\ calc.result[1].bbands_overbs_signal = 0
  /\ calc.result[2].bbands_position = Rat(4, 5)
  /\ calc.result[2].bbands_overbs_signal = -1

\* ------------------------------------------------------------- rsi_formula
\* The signal with the thresholds included.
RsiSignalInclusive(rsi, profile) ==
  IF rsi # NaN /\ Ge(rsi, Rat(profile.overbought, 1)) THEN -1
  ELSE IF rsi # NaN /\ Le(rsi, Rat(profile.oversold, 1)) THEN 1
  ELSE 0

\* rsi_overbs_signal at one bar (lines 716-717).
RsiSignal(rsi, profile) ==
  IF rsi # NaN /\ Gt(rsi, Rat(profile.overbought, 1)) THEN -1
  ELSE IF rsi # NaN /\ Lt(rsi, Rat(profile.oversold, 1)) THEN 1
  ELSE 0

\* Lines 714-721 given the series talib.RSI returned.
rsi_formula(rsi, interval) ==
  [rsi |-> rsi,
   rsi_overbs_signal |->
     [n \in 1..Len(rsi) |-> RsiSignal(rsi[n], rsi_params[interval])]]

\* RSI values: missing in the warm-up, else within 0..100, on, next to and
\* away from the thresholds of the profiles used.
RsiValues ==
  {NaN} \cup {Rat(v, 2) : v \in {0, 59, 60, 61, 70, 100, 130, 139, 140, 141, 200}}

InitRsi ==
  /\ InitSave
  /\ InitBatch(<<>>, 0)
  /\ calc \in {[fn |-> "rsi", interval |-> iv, rsi |-> r, done |-> FALSE,
                result |-> <<>>] :
               iv \in {"1d", "1wk"},
               r \in {f \in UNION {[1..n -> RsiValues] : n \in 1..MaxSignalLen} :
                        \A n \in 2..Len(f) : f[n] = NaN => f[n - 1] = NaN}}

CallRsiFormula ==
  /\ calc.fn = "rsi"
  /\ ~calc.done
  /\ calc' = [calc EXCEPT !.done = TRUE,
                          !.result = rsi_formula(calc.rsi, calc.interval)]
  /\ UNCHANGED <<saveVars, nCalls, batchVars>>

NextRsi == CallRsiFormula

SpecRsi == InitRsi /\ [][NextRsi]_vars

RsiDone == calc.fn = "rsi" /\ calc.done

\* C23: the RSI signal is -1 when the RSI is strictly above the overbought
\* threshold, +1 when strictly below the oversold threshold, and 0 otherwise,
\* which includes an RSI equal to a threshold and a missing RSI.
C23_RsiSignalStrict ==
  RsiDone =>
    \A n \in 1..Len(calc.rsi) :
      LET r == calc.rsi[n]
          profile == rsi_params[calc.interval]
          signal == calc.result.rsi_overbs_signal[n]
      IN signal = IF r = NaN THEN 0
                  ELSE IF r.num > profile.overbought * r.den THEN -1
                  ELSE IF r.num < profile.oversold * r.den THEN 1
                  ELSE 0

\* An RSI equal to the '1d' overbought threshold gives 0 and one just above
\* it gives -1.
C23_Witness ==
  /\ RsiDone
  /\ calc.interval = "1d"
  /\ Len(calc.rsi) = 2
  /\ calc.rsi[1] = Rat(70, 1) /\ calc.result.rsi_overbs_signal[1] = 0
  /\ calc.rsi[2] = Rat(141, 2) /\ calc.result.rsi_overbs_signal[2] = -1

\* ---------------------------------------------- candlestick_pattern_signal
\* The rows of a frame given to the candlestick computation.
MaxPatternLen == 2

\* The keys of major_patterns, in order (lines 729-760).
major_patterns ==
  <<"CDLENGULFING", "CDLHARAMI", "CDLDOJI", "CDLHAMMER", "CDLSHOOTINGSTAR">>

Detectors == {major_patterns[k] : k \in 1..Len(major_patterns)}

\* A detector column that keeps only the bullish sign.
PatternSignBullishOnly(raw) ==
  LET filled == IF raw = NaN THEN Num(0) ELSE raw
  IN IF filled.num > 0 THEN 1 ELSE 0

\* One detector column at one bar: fillna(0), then the sign (lines 816-818).
PatternSign(raw) ==
  LET filled == IF raw = NaN THEN Num(0) ELSE raw
  IN IF filled.num > 0 THEN 1 ELSE IF filled.num < 0 THEN -1 ELSE 0

RECURSIVE SumColumns(_, _)
\* DataFrame.sum(axis=1) at one row over the columns the frame holds.
SumColumns(row, cols) ==
  IF cols = {} THEN 0
  ELSE LET c == CHOOSE x \in cols : TRUE
       IN row[c].num + SumColumns(row, cols \ {c})

\* The row of output_df for one bar (lines 813-820): the five detector
\* columns, then their sum in the column 'cdl_pattern_signal'.
PatternRow(raw) ==
  LET detected == [d \in Detectors |-> Num(PatternSign(raw[d]))]
  IN [c \in Detectors \cup {"cdl_pattern_signal"} |->
        IF c \in Detectors THEN detected[c]
        ELSE Num(SumColumns(detected, DOMAIN detected))]

\* candlestick_pattern_signal given the raw scores talib returned per bar.
candlestick_pattern_signal(raws) == [n \in 1..Len(raws) |-> PatternRow(raws[n])]

\* Series.get(key): the value, or None for a label the row does not have.
RowGet(row, key) == IF key \in DOMAIN row THEN row[key] ELSE None

\* The candlestick part of the record save_technical_data builds for one
\* row (lines 153-162).
PatternRecord(pattern_row) ==
  [candlestick_patterns |->
     [col \in DOMAIN pattern_row \ {"bullish_signal", "bearish_signal",
                                    "pattern_signal"} |->
        convert_to_serializable(pattern_row[col])],
   bullish_signal |-> convert_to_serializable(RowGet(pattern_row, "bullish_signal")),
   bearish_signal |-> convert_to_serializable(RowGet(pattern_row, "bearish_signal")),
   pattern_signal |-> convert_to_serializable(RowGet(pattern_row, "pattern_signal"))]

\* Raw scores of one bar: -100, 0 or 100 per detector with at most two
\* detectors firing, and bars where all five agree on a missing score, on
\* +-100 or on +-200.
RawBars ==
  {b \in [Detectors -> {Num(-100), Num(0), Num(100)}] :
     Cardinality({d \in Detectors : b[d] # Num(0)}) <= 2}
    \cup {[d \in Detectors |-> x] :
            x \in {NaN, Num(100), Num(-100), Num(200), Num(-200)}}

NoPattern == <<>>

InitPattern ==
  /\ InitSave
  /\ InitBatch(<<>>, 0)
  /\ calc \in {[fn |-> "cdl", raws |-> r, stage |-> "fetched",
                cdl_pattern |-> NoPattern, records |-> NoPattern] :
               r \in UNION {[1..n -> RawBars] : n \in 1..MaxPatternLen}}

\* candlestick_pattern_signal(interval) on the fetched frame.
CallCandlestickPatternSignal ==
  /\ calc.fn = "cdl"
  /\ calc.stage = "fetched"
  /\ calc' = [calc EXCEPT !.stage = "computed",
                          !.cdl_pattern = candlestick_pattern_signal(calc.raws)]
  /\ UNCHANGED <<saveVars, nCalls, batchVars>>

\* save_technical_data on the fetcher's output: the candlestick columns of
\* the records it hands to the batch insert, one per row.
SaveCandlestickColumns ==
  /\ calc.fn = "cdl"
  /\ calc.stage = "computed"
  /\ calc' = [calc EXCEPT !.stage = "saved",
                          !.records = [n \in 1..Len(calc.cdl_pattern) |->
                                         PatternRecord(calc.cdl_pattern[n])]]
  /\ UNCHANGED <<saveVars, nCalls, batchVars>>

NextPattern == CallCandlestickPatternSignal \/ SaveCandlestickColumns

SpecPattern == InitPattern /\ [][NextPattern]_vars

PatternComputed == calc.fn = "cdl" /\ calc.stage \in {"computed", "saved"}

\* C24: each detector column is the sign of the library's raw score with a
\* missing score counted as 0, and cdl_pattern_signal is the sum of the five
\* columns, an integer in -5..5.
C24_PatternSigns ==
  PatternComputed =>
    \A n \in 1..Len(calc.raws) :
      LET row == calc.cdl_pattern[n]
          raw == calc.raws[n]
      IN /\ \A d \in Detectors :
              /\ row[d].num \in {-1, 0, 1}
              /\ row[d].num = 1 <=> (raw[d] # NaN /\ raw[d].num > 0)
              /\ row[d].num = -1 <=> (raw[d] # NaN /\ raw[d].num < 0)
         /\ row["cdl_pattern_signal"].num =
              row["CDLENGULFING"].num + row["CDLHARAMI"].num + row["CDLDOJI"].num
                + row["CDLHAMMER"].num + row["CDLSHOOTINGSTAR"].num
         /\ row["cdl_pattern_signal"].num \in -5..5

\* A bar whose scores are all 200 sums to 5, and a bar with a bearish and a
\* bullish detection sums to 0.
C24_Witness ==
  /\ PatternComputed
  /\ Len(calc.raws) = 2
  /\ \A d \in Detectors : calc.raws[1][d] = Num(200)
  /\ calc.cdl_pattern[1]["cdl_pattern_signal"] = Num(5)
  /\ calc.raws[2]["CDLENGULFING"] = Num(-100)
  /\ calc.raws[2]["CDLHAMMER"] = Num(100)
  /\ calc.cdl_pattern[2]["CDLENGULFING"] = Num(-1)
  /\ calc.cdl_pattern[2]["CDLHAMMER"] = Num(1)
  /\ calc.cdl_pattern[2]["cdl_pattern_signal"] = Num(0)

\* C25: every row save_technical_data persists from the fetcher's output
\* has, in pattern_signal, the aggregate candlestick signal of its timestamp.
C25_PatternSignalPersisted ==
  (calc.fn = "cdl" /\ calc.stage = "saved") =>
    \A n \in 1..Len(calc.records) :
      calc.records[n].pattern_signal = calc.cdl_pattern[n]["cdl_pattern_signal"]

\* ------------------------------------- save_technical_data: frame, errors
\* A save_technical_data call has been made.
Called == last.symbol # ""

\* The timestamps of the last call's price frame.
InputTimestamps ==
  IF last.td.stock_price.none THEN {} ELSE DOMAIN last.td.stock_price.at

C28_SaveNeverRaises ==
  Called =>
    /\ last.ok \in BOOLEAN
    /\ (\/ last.interval \notin DOMAIN interval_tables
        \/ last.td.stock_price.none
        \/ DOMAIN last.td.stock_price.at = {})
         => (~last.ok /\ ~last.wrote /\ tables = before)
    /\ last.raised => ~last.ok
    /\ last.ok => last.wrote
    /\ ~last.wrote => tables = before

\* The second call's store write raises on a valid input, after a first call
\* that wrote.
C28_Witness ==
  /\ Called
  /\ last.raised
  /\ ~last.ok
  /\ last.interval \in DOMAIN interval_tables
  /\ InputTimestamps # {}
  /\ tables = before
  /\ BagCardinality(tables[TableOf(last)]) >= 1

\* ----------------------------------- indicator calls: unsupported interval
\* C27: an indicator computation called with an interval that has no
\* parameter profile raises and leaves stock_technical_data as it was: the
\* mapping gets no entry for that interval.
C27_UnsupportedLeavesMapping ==
  (calc.fn = "indicator" /\ calc.done /\ calc.interval \notin NineIntervals) =>
    /\ calc.result.raised # "none"
    /\ DOMAIN calc.entries = calc.technical

\* ------------------------------------------------- StockListRepository
\* create_stock_list calls made on one repository.
MaxListCalls == 2

\* The frames create_stock_list is given: rows (their Symbol), and whether a
\* row lacks a column the document is built from.
StockFrames ==
  {[rows |-> SubSeq(StockUniverse, a, b), malformed |-> m] :
     a \in 1..2, b \in 0..MaxStocks, m \in BOOLEAN}

\* Lines 19-36: one document per row; row['Symbol'] raises on a row without
\* the column.
BuildDocuments(frame) ==
  IF Len(frame.rows) > 0 /\ frame.malformed
  THEN [raised |-> TRUE, documents |-> <<>>]
  ELSE [raised |-> FALSE,
        documents |-> [n \in 1..Len(frame.rows) |-> [symbol |-> frame.rows[n]]]]

NoRead == [list |-> <<>>, failed |-> FALSE, during |-> "none", replacing |-> FALSE]

InitStockList ==
  /\ InitSave
  /\ InitBatch(<<>>, 0)
  /\ calc = [fn |-> "stock_list", collection |-> <<>>, pc |-> "idle",
             frame |-> [rows |-> <<>>, malformed |-> FALSE],
             documents |-> <<>>, at_start |-> <<>>, returned |-> "none",
             calls |-> 0, read |-> NoRead]

\* create_stock_list(stocks_data) is called.
CreateStockList(frame) ==
  /\ calc.fn = "stock_list"
  /\ calc.pc = "idle"
  /\ calc.calls < MaxListCalls
  /\ calc' = [calc EXCEPT !.pc = "delete", !.frame = frame, !.documents = <<>>,
                          !.at_start = calc.collection, !.returned = "none",
                          !.calls = @ + 1]
  /\ UNCHANGED <<saveVars, nCalls, batchVars>>

\* Line 16: await collection.delete_many({}); when it raises, the except
\* clause returns False.
DeleteMany(raises) ==
  /\ calc.fn = "stock_list"
  /\ calc.pc = "delete"
  /\ calc' = IF raises
             THEN [calc EXCEPT !.pc = "idle", !.returned = "False"]
             ELSE [calc EXCEPT !.pc = "build", !.collection = <<>>]
  /\ UNCHANGED <<saveVars, nCalls, batchVars>>

\* Lines 19-42: the documents are built; a row that raises, or no document,
\* returns False.
Build ==
  /\ calc.fn = "stock_list"
  /\ calc.pc = "build"
  /\ LET built == BuildDocuments(calc.frame)
     IN calc' = IF built.raised \/ Len(built.documents) = 0
                THEN [calc EXCEPT !.pc = "idle", !.returned = "False"]
                ELSE [calc EXCEPT !.pc = "insert", !.documents = built.documents]
  /\ UNCHANGED <<saveVars, nCalls, batchVars>>

\* Lines 39-41: await collection.insert_many(documents), then return True;
\* when the insert raises after `kept` documents went in, return False.
InsertMany(raises) ==
  /\ calc.fn = "stock_list"
  /\ calc.pc = "insert"
  /\ \/ /\ ~raises
        /\ calc' = [calc EXCEPT !.pc = "idle", !.returned = "True",
                                !.collection = @ \o calc.documents]
     \/ /\ raises
        /\ \E kept \in 0..(Len(calc.documents) - 1) :
             calc' = [calc EXCEPT !.pc = "idle", !.returned = "False",
                                  !.collection = @ \o SubSeq(calc.documents, 1, kept)]
  /\ UNCHANGED <<saveVars, nCalls, batchVars>>

\* get_all_stocks (lines 48-59) on another task, between two awaits of a
\* create_stock_list call or outside one: the stored documents, or [] when
\* the read raises.
GetAllStocks(readFails) ==
  /\ calc.fn = "stock_list"
  /\ calc' = [calc EXCEPT !.read =
                [list |-> IF readFails THEN <<>> ELSE calc.collection,
                 failed |-> readFails,
                 during |-> calc.pc,
                 replacing |-> /\ calc.pc # "idle"
                               /\ Len(calc.at_start) > 0
                               /\ Len(calc.frame.rows) > 0
                               /\ ~calc.frame.malformed]]
  /\ UNCHANGED <<saveVars, nCalls, batchVars>>

NextStockList ==
  \/ \E frame \in StockFrames : CreateStockList(frame)
  \/ \E raises \in BOOLEAN : DeleteMany(raises)
  \/ Build
  \/ \E raises \in BOOLEAN : InsertMany(raises)
  \/ \E readFails \in BOOLEAN : GetAllStocks(readFails)

SpecStockList == InitStockList /\ [][NextStockList]_vars

\* C29: a create_stock_list call that returns False leaves the stored list
\* as it was; the stored list changes only by a call that returns True; a
\* get_all_stocks concurrent with the replacement of a non-empty list by a
\* non-empty one never reads an empty list.
C29_StockListReplacedAtomically ==
  calc.fn = "stock_list" =>
    /\ (calc.pc = "idle" /\ calc.returned = "False")
         => calc.collection = calc.at_start
    /\ (calc.pc = "idle" /\ calc.collection # calc.at_start)
         => calc.returned = "True"
    /\ (calc.read.replacing /\ ~calc.read.failed) => Len(calc.read.list) > 0

\* ------------------------------------------------- stock-data endpoints
\* Intervals a request may name: two with a table and a price series, one
\* with neither.
RequestIntervals == {"1m", "1d", "2h"}

\* What a handler's try body ends with: a returned response, or a raised
\* exception (an HTTPException carries its status).
Returns == [kind |-> "return", exception |-> "none", status |-> 200]
RaisesHTTP(status) == [kind |-> "raise", exception |-> "HTTPException", status |-> status]
RaisesOther == [kind |-> "raise", exception |-> "Exception", status |-> 0]

\* StockDataRetriever.get_stock_technical_data (lines 16-33, 119-121): None
\* for an interval without a table, for a symbol without rows, and when the
\* query raises; the chart data otherwise.
get_stock_technical_data(stored, symbol, interval, queryRaises) ==
  IF interval \notin DOMAIN interval_tables THEN "None"
  ELSE IF queryRaises THEN "None"
  ELSE IF <<symbol, interval>> \notin stored THEN "None"
  ELSE "data"

\* The try body of POST /api/stocks/{symbol} (main.py lines 433-463).
DatabaseBody(stored, symbol, interval, connectRaises, queryRaises) ==
  IF connectRaises THEN RaisesOther
  ELSE IF get_stock_technical_data(stored, symbol, interval, queryRaises) = "None"
  THEN RaisesHTTP(404)
  ELSE Returns

\* The try body of POST /api/stock-data (main.py lines 155-341). technical:
\* what the fetcher built holds, interval -> "no_price", "empty" or "frame";
\* fetcherRaises: its constructor raised.
LiveBody(technical, interval, fetcherRaises) ==
  IF fetcherRaises THEN RaisesOther
  ELSE IF interval \notin DOMAIN technical THEN RaisesHTTP(404)
  ELSE IF technical[interval] = "no_price" THEN RaisesHTTP(404)
  ELSE IF technical[interval] = "empty" THEN RaisesHTTP(404)
  ELSE Returns

\* except Exception as e: raise HTTPException(status_code=500, ...)
\* (main.py lines 343-344 and 465-466). HTTPException is an Exception, so
\* the clause also catches the one the body raised.
ExceptException(outcome) ==
  IF outcome.kind = "raise" /\ outcome.exception \in {"HTTPException", "Exception"}
  THEN RaisesHTTP(500)
  ELSE outcome

\* The status the caller receives: that of the response returned, or of the
\* HTTPException that leaves the handler.
StatusReceived(outcome) == outcome.status

RequestSymbols == {"AAPL", "MSFT"}

\* What the fetcher's stock_technical_data may hold when the handler reads it.
LiveTechnical ==
  UNION {[I -> {"no_price", "empty", "frame"}] : I \in SUBSET {"1m", "1d"}}

InitEndpoint ==
  /\ InitSave
  /\ InitBatch(<<>>, 0)
  /\ calc \in
       {[fn |-> "request", endpoint |-> "database", symbol |-> sym,
         interval |-> iv, stored |-> st, technical |-> <<>>,
         responded |-> FALSE, raised404 |-> FALSE, status |-> 0] :
          sym \in RequestSymbols, iv \in RequestIntervals,
          st \in SUBSET (RequestSymbols \X {"1m", "1d"})}
       \cup
       {[fn |-> "request", endpoint |-> "live", symbol |-> sym,
         interval |-> iv, stored |-> {}, technical |-> t,
         responded |-> FALSE, raised404 |-> FALSE, status |-> 0] :
          sym \in RequestSymbols, iv \in RequestIntervals, t \in LiveTechnical}

\* POST /api/stocks/{symbol}: get_stock_data(symbol, request).
DatabaseEndpoint(connectRaises, queryRaises) ==
  /\ calc.fn = "request"
  /\ calc.endpoint = "database"
  /\ ~calc.responded
  /\ LET body == DatabaseBody(calc.stored, calc.symbol, calc.interval,
                              connectRaises, queryRaises)
     IN calc' = [calc EXCEPT !.responded = TRUE,
                             !.raised404 = (body = RaisesHTTP(404)),
                             !.status = StatusReceived(ExceptException(body))]
  /\ UNCHANGED <<saveVars, nCalls, batchVars>>

\* POST /api/stock-data: get_stock_data(request).
LiveEndpoint(fetcherRaises) ==
  /\ calc.fn = "request"
  /\ calc.endpoint = "live"
  /\ ~calc.responded
  /\ LET body == LiveBody(calc.technical, calc.interval, fetcherRaises)
     IN calc' = [calc EXCEPT !.responded = TRUE,
                             !.raised404 = (body = RaisesHTTP(404)),
                             !.status = StatusReceived(ExceptException(body))]
  /\ UNCHANGED <<saveVars, nCalls, batchVars>>

NextEndpoint ==
  \/ \E connectRaises, queryRaises \in BOOLEAN :
       DatabaseEndpoint(connectRaises, queryRaises)
  \/ \E fetcherRaises \in BOOLEAN : LiveEndpoint(fetcherRaises)

SpecEndpoint == InitEndpoint /\ [][NextEndpoint]_vars

\* C30: a stock-data request for a symbol or interval without price rows is
\* answered with status 404, on both endpoints: the 404 the handler raises is
\* the status the caller receives.
C30_NoDataIs404 ==
  (calc.fn = "request" /\ calc.responded /\ calc.raised404) => calc.status = 404

====
